---- MODULE Spec2Model ----
(***************************************************************************)
(* A model of PokeButler's two cores: the Blackjack state machine          *)
(* (utils/blackjack_game.py, utils/blackjack_helpers.py,                   *)
(* utils/blackjack_deck.py) with the cog and the views that run it         *)
(* (cogs/blackjack.py, utils/blackjack_views.py), and the resilient API    *)
(* layer (utils/api_clients.py, utils/circuit_breaker.py,                  *)
(* utils/database.py, utils/decorators.py).                                *)
(* Each subsystem has its own specification over the shared variables;     *)
(* the variables of the other subsystems stay at their initial values.     *)
(***************************************************************************)
EXTENDS Integers, Sequences, FiniteSets, TLC

VARIABLES
    \* ---- BlackjackGame (blackjack_game.py:134-156) ----
    phase,               \* GamePhase value
    players,             \* list of Player records (seats)
    dealer,              \* the dealer Player record
    deck,                \* Deck.cards: the shoe, drawn from its end
    current_turn_index,  \* 0-based seat index
    last_call,           \* observation: the last operation, its caller and what it returned
    \* ---- CircuitBreaker (circuit_breaker.py:73-79) ----
    _state,              \* CircuitState value
    _failure_count,
    _success_count,
    _last_failure_time,  \* NoTime stands for None
    now,                 \* time.monotonic() / time.time(), in ticks
    cb_pc,               \* per caller: "idle", or "running" while func is awaited
    cb_result,           \* per caller: how its last call ended
    admitted_in,         \* per caller in flight: the state its call was admitted in
    \* history of the breaker, kept for the properties only
    streak,              \* matched failures since the last success
    half_open_successes, \* successes in HALF_OPEN since it was last entered
    op_calls,            \* invocations of the protected operation
    calls_made,          \* calls of CircuitBreaker.call
    \* ---- Database.api_cache (database.py:121-127) ----
    cache,               \* the table: cache_key -> row, NoRow where there is none
    wall,                \* time.time(), in ticks
    cache_op,            \* observation: the last cache operation and what it evicted
    \* ---- SmogonAPIClient (api_clients.py:106-107) and its get_sets callers ----
    _pending_requests,   \* the task registered under the dedup key, 0 for none
    tasks,               \* the tasks created for the key, in creation order
    gs_pc,               \* per caller of get_sets: where it is
    gs_attempt,          \* per caller: the attempt of retry_on_error
    gs_task,             \* per caller: the task it awaits, 0 for none
    gs_created,          \* per caller: the local "created"
    gs_result,           \* per caller: what its last await gave it
    fetch_calls,         \* invocations of _fetch_smogon_sets
    rejected_tasks,      \* history: the tasks the breaker refused
    session,             \* SmogonAPIClient.session: "none", "open" or "closed"
    _is_closing,
    _cleanup_task,       \* the sweep task: "none", "created", "sleeping", "cancelling", "done"
    close_pc,            \* where the call of close() is
    rt,                  \* one call of a function wrapped by retry_on_error
    _global_rate_limiter,
    _rate_limiter,
    rq_path,             \* the request path each requester runs
    rq_pc,
    rq_inner,            \* per search: where each get_sets call of its current batch is
    _request_locks,
    dd_pending_requests, \* _pending_requests, by key
    dd_tasks,
    dd_pc,
    dd_key,
    dd_task,
    dd_created,
    \* ---- the pure helpers and the shoe, each applied to bounded inputs ----
    hv,                  \* a hand and what calculate_hand_value / is_soft_hand gave
    dw,                  \* the arguments of determine_winner and its result
    dk,                  \* two Decks constructed with the same seed argument
    \* ---- the Blackjack cog and the views of one game (cogs/blackjack.py) ----
    tb,                  \* the registry entry, the views and the turn timer of the game
    rg,                  \* active_games of one channel and the games created in it
    tm                   \* the turn timer of one game view and the tasks around it

gameVars == <<phase, players, dealer, deck, current_turn_index>>
gameAll == <<phase, players, dealer, deck, current_turn_index, last_call>>
breakerVars == <<_state, _failure_count, _success_count, _last_failure_time>>
breakerAll ==
    <<_state, _failure_count, _success_count, _last_failure_time, now, cb_pc,
      cb_result, admitted_in, streak, half_open_successes, op_calls, calls_made>>
cacheAll == <<cache, wall, cache_op>>
lifecycle == <<session, _is_closing, _cleanup_task, close_pc>>
dedupAll ==
    <<_pending_requests, tasks, gs_pc, gs_attempt, gs_task, gs_created, gs_result,
      fetch_calls, rejected_tasks, session, _is_closing, _cleanup_task, close_pc>>
retryAll == <<rt>>
limiterAll == <<_global_rate_limiter, _rate_limiter, rq_path, rq_pc, rq_inner>>
lockAll ==
    <<_request_locks, dd_pending_requests, dd_tasks, dd_pc, dd_key, dd_task,
      dd_created>>
cardsAll == <<hv, dw, dk>>
tableAll == <<tb, rg, tm>>
restAll == <<retryAll, limiterAll, lockAll, cardsAll, tableAll>>
coreAll == <<gameAll, breakerAll, cacheAll, dedupAll>>

(***************************************************************************)
(* Bounds of the Blackjack model.                                          *)
(***************************************************************************)
\* The part of the shuffled shoe that a run can draw: its top DeckLen cards.
DeckLen == 7
\* Discord users that press buttons (the dealer/host is DEALER_ID).
NumUsers == 2

\* BlackjackGame(max_players=3) default, blackjack_game.py:139
max_players == 3
DEALER_ID == 0
Users == 1..NumUsers
Callers == Users \cup {DEALER_ID}

\* config/settings.py:296-302
BLACKJACK_VALUE == 21
BLACKJACK_ACE_HIGH_VALUE == 11
BLACKJACK_ACE_LOW_VALUE == 1
BLACKJACK_FACE_CARD_VALUE == 10
BLACKJACK_INITIAL_CARDS_COUNT == 2

\* Deck.RANKS. The game logic never reads a card's suit, so a card is
\* modelled by its rank.
RANKS == {"A", "2", "3", "4", "5", "6", "7", "8", "9", "10", "J", "Q", "K"}
\* The ranks the modelled shoe window is drawn from: an Ace, a pip card and
\* a face card give every pair, soft/hard total, blackjack and bust.
ModelRanks == {"A", "6", "K"}
\* A placeholder returned by a draw beyond the modelled window; no
\* reachable state holds it.
NoCard == "beyond_window"

\* int(card.rank) for the pip cards
IntOfRank(r) ==
    CASE r = "2" -> 2 [] r = "3" -> 3 [] r = "4" -> 4 [] r = "5" -> 5
      [] r = "6" -> 6 [] r = "7" -> 7 [] r = "8" -> 8 [] r = "9" -> 9
      [] r = "10" -> 10 [] OTHER -> 0

RECURSIVE SumSeq(_)
SumSeq(s) == IF s = <<>> THEN 0 ELSE Head(s) + SumSeq(Tail(s))

NumAces(cards) == Cardinality({i \in 1..Len(cards) : cards[i] = "A"})

\* blackjack_helpers.py:43-51, the first loop of calculate_hand_value
HighTotal(cards) ==
    SumSeq([i \in 1..Len(cards) |->
        IF cards[i] = "A" THEN BLACKJACK_ACE_HIGH_VALUE
        ELSE IF cards[i] \in {"J", "Q", "K"} THEN BLACKJACK_FACE_CARD_VALUE
        ELSE IntOfRank(cards[i])])

\* blackjack_helpers.py:54-58, the while loop converting Aces from 11 to 1
RECURSIVE AdjustAces(_, _)
AdjustAces(total, aces) ==
    IF total > BLACKJACK_VALUE /\ aces > 0
    THEN AdjustAces(total - (BLACKJACK_ACE_HIGH_VALUE - BLACKJACK_ACE_LOW_VALUE), aces - 1)
    ELSE total

\* every Ace kept at 11
calculate_hand_value_aces_high(cards) ==
    IF cards = <<>> THEN 0 ELSE HighTotal(cards)

calculate_hand_value(cards) ==
    IF cards = <<>> THEN 0 ELSE AdjustAces(HighTotal(cards), NumAces(cards))

is_blackjack(cards) ==
    IF Len(cards) # BLACKJACK_INITIAL_CARDS_COUNT THEN FALSE
    ELSE calculate_hand_value(cards) = BLACKJACK_VALUE

is_bust(cards) == calculate_hand_value(cards) > BLACKJACK_VALUE

is_soft_hand(cards) ==
    LET has_ace == \E i \in 1..Len(cards) : cards[i] = "A"
        total_without_ace ==
            SumSeq([i \in 1..Len(cards) |->
                IF cards[i] \in {"J", "Q", "K"} THEN BLACKJACK_FACE_CARD_VALUE
                ELSE IF cards[i] = "A" THEN BLACKJACK_ACE_LOW_VALUE
                ELSE IntOfRank(cards[i])])
    IN  IF ~has_ace THEN FALSE
        ELSE total_without_ace + (BLACKJACK_ACE_HIGH_VALUE - BLACKJACK_ACE_LOW_VALUE)
                 <= BLACKJACK_VALUE

can_split(cards) ==
    IF Len(cards) # BLACKJACK_INITIAL_CARDS_COUNT THEN FALSE
    ELSE cards[1] = cards[2]

\* PlayerHand(cards, status, is_split, is_split_aces)
PlayerHand(cards, is_split, is_split_aces) ==
    [cards |-> cards, status |-> "active", is_split |-> is_split,
     is_split_aces |-> is_split_aces]

\* Player(user_id, hands=[PlayerHand()], is_dealer, current_hand_index=0)
Player(user_id, is_dealer) ==
    [user_id |-> user_id, hands |-> <<PlayerHand(<<>>, FALSE, FALSE)>>,
     is_dealer |-> is_dealer, current_hand_index |-> 0]

get_current_hand(p) == p.hands[p.current_hand_index + 1]

all_hands_finished(p) == \A i \in 1..Len(p.hands) : p.hands[i].status # "active"

\* The game object as one value; ran_out marks a draw beyond the modelled
\* window of the shoe (such steps are outside the model's bound).
G ==
    [phase |-> phase, players |-> players, dealer |-> dealer, deck |-> deck,
     current_turn_index |-> current_turn_index, ran_out |-> FALSE]

\* a draw that hands out the top card and leaves it in the shoe
draw_peek(g) ==
    IF Len(g.deck) = 0
    THEN [card |-> NoCard, g |-> [g EXCEPT !.ran_out = TRUE]]
    ELSE [card |-> g.deck[Len(g.deck)], g |-> g]

\* Deck.draw: cards.pop()
draw(g) ==
    IF Len(g.deck) = 0
    THEN [card |-> NoCard, g |-> [g EXCEPT !.ran_out = TRUE]]
    ELSE [card |-> g.deck[Len(g.deck)],
          g |-> [g EXCEPT !.deck = SubSeq(g.deck, 1, Len(g.deck) - 1)]]

\* A reference to the Player object get_current_player returns.
NoPlayer == [kind |-> "none", idx |-> 0]
DealerRef == [kind |-> "dealer", idx |-> 0]
SeatRef(i) == [kind |-> "seat", idx |-> i]

get_current_player(g) ==
    IF g.phase = "dealer_turn" THEN DealerRef
    ELSE IF g.phase # "playing" THEN NoPlayer
    ELSE IF 0 <= g.current_turn_index /\ g.current_turn_index < Len(g.players)
         THEN SeatRef(g.current_turn_index)
    ELSE NoPlayer

Deref(g, ref) == IF ref.kind = "dealer" THEN g.dealer ELSE g.players[ref.idx + 1]

\* Writes through the reference: the object is shared with the game.
Store(g, ref, p) ==
    IF ref.kind = "dealer" THEN [g EXCEPT !.dealer = p]
    ELSE [g EXCEPT !.players[ref.idx + 1] = p]

\* current_hand = current_player.get_current_hand(); current_hand.<field> = ...
StoreHand(g, ref, h) ==
    LET p == Deref(g, ref)
    IN  Store(g, ref, [p EXCEPT !.hands[p.current_hand_index + 1] = h])


\* What an operation hands back: the game after it and its return value
\* ("None"/"False" signal a rejected call).
Result(g, ret) == [g |-> g, ret |-> ret]

can_dealer_hit(g) ==
    LET hand == g.dealer.hands[1].cards
        val == calculate_hand_value(hand)
        is_soft == is_soft_hand(hand)
    IN  IF hand = <<>> THEN FALSE
        ELSE IF val < 17 THEN TRUE
        ELSE IF val = 17 /\ is_soft THEN TRUE
        ELSE FALSE

can_dealer_stand(g) == ~can_dealer_hit(g)

\* the check with SURRENDER left out of the finished-and-lost statuses
_check_all_players_busted(g) ==
    IF g.players = <<>> THEN FALSE
    ELSE \A i \in 1..Len(g.players) : \A j \in 1..Len(g.players[i].hands) :
             g.players[i].hands[j].status \notin
                 {"active", "stand", "blackjack", "split_aces", "surrender"}

_check_all_players_busted_or_surrendered(g) ==
    IF g.players = <<>> THEN FALSE
    ELSE \A i \in 1..Len(g.players) : \A j \in 1..Len(g.players[i].hands) :
             g.players[i].hands[j].status \notin
                 {"active", "stand", "blackjack", "split_aces"}

\* the dealer policy standing on every 17, the soft one included
_check_dealer_auto_stand_on_soft_17(g) ==
    LET dealer_hand == g.dealer.hands[1]
        hand_value == calculate_hand_value(dealer_hand.cards)
    IN  IF g.phase # "dealer_turn" THEN g
        ELSE IF hand_value < 17 THEN g
        ELSE [g EXCEPT !.dealer.hands[1].status = "stand", !.phase = "results"]

_check_dealer_auto_stand(g) ==
    LET dealer_hand == g.dealer.hands[1]
        hand_value == calculate_hand_value(dealer_hand.cards)
        is_soft == is_soft_hand(dealer_hand.cards)
    IN  IF g.phase # "dealer_turn" THEN g
        ELSE IF hand_value < 17 THEN g
        ELSE IF hand_value = 17 /\ is_soft THEN g
        ELSE [g EXCEPT !.dealer.hands[1].status = "stand", !.phase = "results"]

\* the turn passed to the next seat whatever its hands are
SkipFinished_none(ps, i) == i

\* The loops "while index < len(players) and players[index].all_hands_finished()"
RECURSIVE SkipFinished(_, _)
SkipFinished(ps, i) ==
    IF i < Len(ps) /\ all_hands_finished(ps[i + 1]) THEN SkipFinished(ps, i + 1) ELSE i

RECURSIVE _advance_turn(_)
_advance_turn(g) ==
    LET ref == get_current_player(g)
        some == ref.kind # "none"
        current_player == Deref(g, ref)
        \* lines 450-469: move to the next seat, or to the dealer
        NextSeat ==
            LET i == SkipFinished(g.players, g.current_turn_index + 1)
                g1 == [g EXCEPT !.current_turn_index = i]
            IN  IF i >= Len(g.players)
                THEN _check_dealer_auto_stand([g1 EXCEPT !.phase = "dealer_turn"])
                ELSE g1
        \* lines 432-448
        Rest ==
            IF some /\ current_player.is_dealer
                 /\ get_current_hand(current_player).status \in {"bust", "stand"}
            THEN [g EXCEPT !.phase = "results"]
            ELSE IF _check_all_players_busted_or_surrendered(g)
            THEN [g EXCEPT !.phase = "results"]
            ELSE NextSeat
    IN  IF some /\ ~all_hands_finished(current_player)
             /\ current_player.current_hand_index < Len(current_player.hands) - 1
        THEN LET p1 == [current_player EXCEPT !.current_hand_index = @ + 1]
                 g1 == Store(g, ref, p1)
                 current_hand == get_current_hand(p1)
             IN  IF Len(current_hand.cards) = 1
                 THEN LET d == draw(g1)
                          h2 == [current_hand EXCEPT !.cards = Append(@, d.card)]
                          g2 == StoreHand(d.g, ref, h2)
                      IN  IF h2.is_split_aces
                          THEN _advance_turn(
                                   StoreHand(g2, ref, [h2 EXCEPT !.status = "split_aces"]))
                          ELSE g2
                 ELSE g1
        ELSE Rest

\* hit taking the card for the turn holder whoever calls
hit_for_anyone(g, user_id) ==
    LET ref == get_current_player(g)
        current_player == Deref(g, ref)
        current_hand == get_current_hand(current_player)
        d == draw(g)
        h1 == [current_hand EXCEPT !.cards = Append(@, d.card)]
        g1 == StoreHand(d.g, ref, h1)
    IN  IF ref.kind = "none" THEN Result(g, "None")
        ELSE IF current_player.is_dealer /\ can_dealer_stand(g) THEN Result(g, "None")
        ELSE IF current_hand.status # "active" THEN Result(g, "None")
        ELSE IF is_bust(h1.cards)
             THEN Result(_advance_turn(StoreHand(g1, ref, [h1 EXCEPT !.status = "bust"])),
                         d.card)
        ELSE IF current_player.is_dealer /\ can_dealer_stand(g1)
             THEN Result([StoreHand(g1, ref, [h1 EXCEPT !.status = "stand"])
                              EXCEPT !.phase = "results"], d.card)
        ELSE Result(g1, d.card)

hit(g, user_id) ==
    LET ref == get_current_player(g)
        current_player == Deref(g, ref)
        current_hand == get_current_hand(current_player)
        d == draw(g)
        h1 == [current_hand EXCEPT !.cards = Append(@, d.card)]
        g1 == StoreHand(d.g, ref, h1)
    IN  IF ref.kind = "none" THEN Result(g, "None")
        ELSE IF current_player.user_id # user_id THEN Result(g, "None")
        ELSE IF current_player.is_dealer /\ can_dealer_stand(g) THEN Result(g, "None")
        ELSE IF current_hand.status # "active" THEN Result(g, "None")
        ELSE IF is_bust(h1.cards)
             THEN Result(_advance_turn(StoreHand(g1, ref, [h1 EXCEPT !.status = "bust"])),
                         d.card)
        ELSE IF current_player.is_dealer /\ can_dealer_stand(g1)
             THEN Result([StoreHand(g1, ref, [h1 EXCEPT !.status = "stand"])
                              EXCEPT !.phase = "results"], d.card)
        ELSE Result(g1, d.card)

\* stand marking every hand of the seat, finished ones included
stand_every_hand(g, user_id) ==
    LET ref == get_current_player(g)
        current_player == Deref(g, ref)
        current_hand == get_current_hand(current_player)
        g1 == Store(g, ref,
                    [current_player EXCEPT
                        !.hands = [j \in 1..Len(@) |-> [@[j] EXCEPT !.status = "stand"]]])
    IN  IF ref.kind = "none" THEN Result(g, "False")
        ELSE IF current_player.user_id # user_id THEN Result(g, "False")
        ELSE IF current_player.is_dealer /\ ~can_dealer_stand(g) THEN Result(g, "False")
        ELSE IF current_hand.status # "active" THEN Result(g, "False")
        ELSE IF current_player.is_dealer
             THEN Result([g1 EXCEPT !.phase = "results"], "True")
        ELSE Result(_advance_turn(g1), "True")

stand(g, user_id) ==
    LET ref == get_current_player(g)
        current_player == Deref(g, ref)
        current_hand == get_current_hand(current_player)
        g1 == StoreHand(g, ref, [current_hand EXCEPT !.status = "stand"])
    IN  IF ref.kind = "none" THEN Result(g, "False")
        ELSE IF current_player.user_id # user_id THEN Result(g, "False")
        ELSE IF current_player.is_dealer /\ ~can_dealer_stand(g) THEN Result(g, "False")
        ELSE IF current_hand.status # "active" THEN Result(g, "False")
        ELSE IF current_player.is_dealer
             THEN Result([g1 EXCEPT !.phase = "results"], "True")
        ELSE Result(_advance_turn(g1), "True")

\* double_down drawing its card before the two-card check
double_down_draws_first(g, user_id) ==
    LET ref == get_current_player(g)
        current_player == Deref(g, ref)
        current_hand == get_current_hand(current_player)
        d == draw(g)
        h1 == [current_hand EXCEPT !.cards = Append(@, d.card)]
        h2 == [h1 EXCEPT !.status = IF is_bust(h1.cards) THEN "bust" ELSE "stand"]
    IN  IF ref.kind = "none" THEN Result(g, "None")
        ELSE IF current_player.user_id # user_id THEN Result(g, "None")
        ELSE IF current_player.is_dealer THEN Result(g, "None")
        ELSE IF Len(current_hand.cards) # BLACKJACK_INITIAL_CARDS_COUNT
             THEN Result(d.g, "None")
        ELSE IF current_hand.status # "active" THEN Result(d.g, "None")
        ELSE Result(_advance_turn(StoreHand(d.g, ref, h2)), d.card)

\* double_down leaving a hand that did not bust ACTIVE, as hit does
double_down_not_forced(g, user_id) ==
    LET ref == get_current_player(g)
        current_player == Deref(g, ref)
        current_hand == get_current_hand(current_player)
        d == draw(g)
        h1 == [current_hand EXCEPT !.cards = Append(@, d.card)]
        h2 == [h1 EXCEPT !.status = IF is_bust(h1.cards) THEN "bust" ELSE "active"]
    IN  IF ref.kind = "none" THEN Result(g, "None")
        ELSE IF current_player.user_id # user_id THEN Result(g, "None")
        ELSE IF current_player.is_dealer THEN Result(g, "None")
        ELSE IF Len(current_hand.cards) # BLACKJACK_INITIAL_CARDS_COUNT
             THEN Result(g, "None")
        ELSE IF current_hand.status # "active" THEN Result(g, "None")
        ELSE Result(_advance_turn(StoreHand(d.g, ref, h2)), d.card)

double_down(g, user_id) ==
    LET ref == get_current_player(g)
        current_player == Deref(g, ref)
        current_hand == get_current_hand(current_player)
        d == draw(g)
        h1 == [current_hand EXCEPT !.cards = Append(@, d.card)]
        h2 == [h1 EXCEPT !.status = IF is_bust(h1.cards) THEN "bust" ELSE "stand"]
    IN  IF ref.kind = "none" THEN Result(g, "None")
        ELSE IF current_player.user_id # user_id THEN Result(g, "None")
        ELSE IF current_player.is_dealer THEN Result(g, "None")
        ELSE IF Len(current_hand.cards) # BLACKJACK_INITIAL_CARDS_COUNT
             THEN Result(g, "None")
        ELSE IF current_hand.status # "active" THEN Result(g, "None")
        ELSE Result(_advance_turn(StoreHand(d.g, ref, h2)), d.card)

\* list.insert(pos, x) with 0-based pos
InsertAt(s, pos, x) == SubSeq(s, 1, pos) \o <<x>> \o SubSeq(s, pos + 1, Len(s))

\* split dealing the second hand its card at once for every pair
split_deals_both(g, user_id) ==
    LET ref == get_current_player(g)
        current_player == Deref(g, ref)
        current_hand == get_current_hand(current_player)
        card1 == current_hand.cards[1]
        card2 == current_hand.cards[2]
        is_aces == card1 = "A"
        d1 == draw(g)
        hand1 == PlayerHand(<<card1, d1.card>>, TRUE, is_aces)
        hand2 == PlayerHand(<<card2>>, TRUE, is_aces)
        idx == current_player.current_hand_index
        \* hands[idx] = hand1; hands.insert(idx + 1, hand2)
        p1 == [current_player EXCEPT
                  !.hands = InsertAt([@ EXCEPT ![idx + 1] = hand1], idx + 1, hand2)]
        g1 == Store(d1.g, ref, p1)
        \* the Split Aces branch, lines 707-713
        d2 == draw(g1)
        p2 == [p1 EXCEPT !.hands[idx + 1].status = "split_aces",
                         !.hands[idx + 2].cards = Append(@, d2.card),
                         !.hands[idx + 2].status = "split_aces"]
    IN  IF ref.kind = "none" THEN Result(g, "False")
        ELSE IF current_player.user_id # user_id THEN Result(g, "False")
        ELSE IF current_player.is_dealer THEN Result(g, "False")
        ELSE IF ~can_split(current_hand.cards) THEN Result(g, "False")
        ELSE IF current_hand.status # "active" THEN Result(g, "False")
        ELSE IF is_aces THEN Result(_advance_turn(Store(d2.g, ref, p2)), "True")
        ELSE Result(Store(d2.g, ref,
                          [p1 EXCEPT !.hands[idx + 2].cards = Append(@, d2.card)]),
                    "True")

\* split leaving the turn on the seat after a pair of Aces
split_aces_no_advance(g, user_id) ==
    LET ref == get_current_player(g)
        current_player == Deref(g, ref)
        current_hand == get_current_hand(current_player)
        card1 == current_hand.cards[1]
        card2 == current_hand.cards[2]
        is_aces == card1 = "A"
        d1 == draw(g)
        hand1 == PlayerHand(<<card1, d1.card>>, TRUE, is_aces)
        hand2 == PlayerHand(<<card2>>, TRUE, is_aces)
        idx == current_player.current_hand_index
        \* hands[idx] = hand1; hands.insert(idx + 1, hand2)
        p1 == [current_player EXCEPT
                  !.hands = InsertAt([@ EXCEPT ![idx + 1] = hand1], idx + 1, hand2)]
        g1 == Store(d1.g, ref, p1)
        \* the Split Aces branch, lines 707-713
        d2 == draw(g1)
        p2 == [p1 EXCEPT !.hands[idx + 1].status = "split_aces",
                         !.hands[idx + 2].cards = Append(@, d2.card),
                         !.hands[idx + 2].status = "split_aces"]
    IN  IF ref.kind = "none" THEN Result(g, "False")
        ELSE IF current_player.user_id # user_id THEN Result(g, "False")
        ELSE IF current_player.is_dealer THEN Result(g, "False")
        ELSE IF ~can_split(current_hand.cards) THEN Result(g, "False")
        ELSE IF current_hand.status # "active" THEN Result(g, "False")
        ELSE IF is_aces THEN Result(Store(d2.g, ref, p2), "True")
        ELSE Result(g1, "True")

split(g, user_id) ==
    LET ref == get_current_player(g)
        current_player == Deref(g, ref)
        current_hand == get_current_hand(current_player)
        card1 == current_hand.cards[1]
        card2 == current_hand.cards[2]
        is_aces == card1 = "A"
        d1 == draw(g)
        hand1 == PlayerHand(<<card1, d1.card>>, TRUE, is_aces)
        hand2 == PlayerHand(<<card2>>, TRUE, is_aces)
        idx == current_player.current_hand_index
        \* hands[idx] = hand1; hands.insert(idx + 1, hand2)
        p1 == [current_player EXCEPT
                  !.hands = InsertAt([@ EXCEPT ![idx + 1] = hand1], idx + 1, hand2)]
        g1 == Store(d1.g, ref, p1)
        \* the Split Aces branch, lines 707-713
        d2 == draw(g1)
        p2 == [p1 EXCEPT !.hands[idx + 1].status = "split_aces",
                         !.hands[idx + 2].cards = Append(@, d2.card),
                         !.hands[idx + 2].status = "split_aces"]
    IN  IF ref.kind = "none" THEN Result(g, "False")
        ELSE IF current_player.user_id # user_id THEN Result(g, "False")
        ELSE IF current_player.is_dealer THEN Result(g, "False")
        ELSE IF ~can_split(current_hand.cards) THEN Result(g, "False")
        ELSE IF current_hand.status # "active" THEN Result(g, "False")
        ELSE IF is_aces THEN Result(_advance_turn(Store(d2.g, ref, p2)), "True")
        ELSE Result(g1, "True")

surrender(g, user_id) ==
    LET ref == get_current_player(g)
        current_player == Deref(g, ref)
        current_hand == get_current_hand(current_player)
    IN  IF ref.kind = "none" THEN Result(g, "False")
        ELSE IF current_player.user_id # user_id THEN Result(g, "False")
        ELSE IF current_player.is_dealer THEN Result(g, "False")
        ELSE IF Len(current_hand.cards) # 2 \/ current_hand.is_split
             THEN Result(g, "False")
        ELSE IF current_hand.status # "active" THEN Result(g, "False")
        ELSE Result(_advance_turn(
                        StoreHand(g, ref, [current_hand EXCEPT !.status = "surrender"])),
                    "True")


\* add_player seating a user who is seated already
add_player_again(g, user_id) ==
    IF g.phase # "lobby" THEN Result(g, "False")
    ELSE IF Len(g.players) >= max_players THEN Result(g, "False")
    ELSE IF user_id = DEALER_ID THEN Result(g, "False")
    ELSE Result([g EXCEPT !.players = Append(@, Player(user_id, FALSE))], "True")

add_player(g, user_id) ==
    IF g.phase # "lobby" THEN Result(g, "False")
    ELSE IF Len(g.players) >= max_players THEN Result(g, "False")
    ELSE IF \E i \in 1..Len(g.players) : g.players[i].user_id = user_id
         THEN Result(g, "False")
    ELSE IF user_id = DEALER_ID THEN Result(g, "False")
    ELSE Result([g EXCEPT !.players = Append(@, Player(user_id, FALSE))], "True")

\* [p for p in self.players if p.user_id != user_id]
RECURSIVE WithoutUser(_, _)
WithoutUser(ps, user_id) ==
    IF ps = <<>> THEN <<>>
    ELSE IF Head(ps).user_id # user_id
         THEN <<Head(ps)>> \o WithoutUser(Tail(ps), user_id)
    ELSE WithoutUser(Tail(ps), user_id)

\* remove_player without the lobby check
remove_player_any_phase(g, user_id) ==
    Result([g EXCEPT !.players = WithoutUser(@, user_id)], "True")

remove_player(g, user_id) ==
    IF g.phase # "lobby" THEN Result(g, "False")
    ELSE Result([g EXCEPT !.players = WithoutUser(@, user_id)], "True")

\* One dealing round over the seats: "for player in self.players: draw, append"
RECURSIVE DealRound(_, _)
DealRound(g, i) ==
    IF i > Len(g.players) THEN g
    ELSE LET d == draw(g)
         IN  DealRound([d.g EXCEPT !.players[i].hands[1].cards = Append(@, d.card)],
                       i + 1)

DealDealer(g) ==
    LET d == draw(g)
    IN  [d.g EXCEPT !.dealer.hands[1].cards = Append(@, d.card)]

_deal_initial_cards(g) == DealDealer(DealRound(DealDealer(DealRound(g, 1)), 1))

\* lines 281-284: mark every seat's natural blackjack
MarkBlackjacks(ps) ==
    [i \in 1..Len(ps) |->
        IF is_blackjack(ps[i].hands[1].cards)
        THEN [ps[i] EXCEPT !.hands[1].status = "blackjack"]
        ELSE ps[i]]

start_game(g) ==
    LET g1 == _deal_initial_cards([g EXCEPT !.phase = "dealing"])
        g2 == [g1 EXCEPT !.players = MarkBlackjacks(@), !.phase = "playing",
                         !.current_turn_index = SkipFinished(MarkBlackjacks(g1.players), 0)]
    IN  IF g.phase # "lobby" THEN Result(g, "False")
        ELSE IF Len(g.players) = 0 THEN Result(g, "False")
        ELSE IF is_blackjack(g1.dealer.hands[1].cards)
             THEN Result([g1 EXCEPT !.dealer.hands[1].status = "blackjack",
                                    !.phase = "results"], "True")
        ELSE IF g2.current_turn_index >= Len(g2.players)
             THEN Result(_check_dealer_auto_stand([g2 EXCEPT !.phase = "dealer_turn"]),
                         "True")
        ELSE Result(g2, "True")

(***************************************************************************)
(* The Blackjack specification: one action per operation of BlackjackGame, *)
(* called by any user at any time, as the buttons allow.                   *)
(***************************************************************************)
Rejected(ret) == ret \in {"None", "False"}
\* A rejected call is observed as such, whatever the operation and caller.
RejectedCall == [op |-> "rejected", user_id |-> DEALER_ID, ret |-> "None"]

Call(op, user_id, r) ==
    /\ ~r.g.ran_out
    /\ phase' = r.g.phase
    /\ players' = r.g.players
    /\ dealer' = r.g.dealer
    /\ deck' = r.g.deck
    /\ current_turn_index' = r.g.current_turn_index
    /\ last_call' = IF Rejected(r.ret) THEN RejectedCall
                     ELSE [op |-> op, user_id |-> user_id, ret |-> r.ret]
    /\ UNCHANGED <<breakerAll, cacheAll, dedupAll, restAll>>

AddPlayer == \E u \in Callers : Call("add_player", u, add_player(G, u))
RemovePlayer == \E u \in Callers : Call("remove_player", u, remove_player(G, u))
StartGame == Call("start_game", DEALER_ID, start_game(G))
Hit == \E u \in Callers : Call("hit", u, hit(G, u))
Stand == \E u \in Callers : Call("stand", u, stand(G, u))
DoubleDown == \E u \in Callers : Call("double_down", u, double_down(G, u))
Split == \E u \in Callers : Call("split", u, split(G, u))
Surrender == \E u \in Callers : Call("surrender", u, surrender(G, u))

\* BlackjackGame.__init__, with the shoe's drawable window in any order
GameInit ==
    /\ phase = "lobby"
    /\ players = <<>>
    /\ dealer = Player(DEALER_ID, TRUE)
    /\ deck \in [1..DeckLen -> ModelRanks]
    /\ current_turn_index = 0
    /\ last_call = [op |-> "init", user_id |-> DEALER_ID, ret |-> "True"]

GameNext ==
    \/ AddPlayer
    \/ RemovePlayer
    \/ StartGame
    \/ Hit
    \/ Stand
    \/ DoubleDown
    \/ Split
    \/ Surrender

(***************************************************************************)
(* CircuitBreaker (utils/circuit_breaker.py).  Every critical section     *)
(* under self._lock runs without an await inside, so each is one step;     *)
(* the awaited operation runs between two such steps.                      *)
(***************************************************************************)
\* The breaker's parameters, small so that every threshold is reached.
failure_threshold == 2
recovery_timeout == 2
success_threshold == 2
\* Concurrent callers of CircuitBreaker.call, the clock's range and the
\* number of calls a run makes.
NumBreakerCallers == 2
MaxTime == 5
MaxCalls == 6

NoTime == -1
BreakerCallers == 1..NumBreakerCallers

_should_attempt_reset ==
    IF _last_failure_time = NoTime THEN TRUE
    ELSE (now - _last_failure_time) >= recovery_timeout

\* call, lines 121-148: the admission check under the lock
Admitted == _state # "open" \/ _should_attempt_reset

\* call, lines 121-152: admission, then func is invoked
CallAdmitted(c) ==
    /\ cb_pc[c] = "idle"
    /\ calls_made < MaxCalls
    /\ Admitted
    /\ IF _state = "open"
       THEN /\ _state' = "half_open"
            /\ _success_count' = 0
            /\ half_open_successes' = 0
       ELSE UNCHANGED <<_state, _success_count, half_open_successes>>
    /\ cb_pc' = [cb_pc EXCEPT ![c] = "running"]
    /\ cb_result' = [cb_result EXCEPT ![c] = "pending"]
    /\ admitted_in' = [admitted_in EXCEPT ![c] = _state']
    /\ op_calls' = op_calls + 1
    /\ calls_made' = calls_made + 1
    /\ UNCHANGED <<_failure_count, _last_failure_time, now, streak>>
    /\ UNCHANGED <<gameAll, restAll, cacheAll, dedupAll>>

\* call, lines 134-148: still open, CircuitBreakerError is raised
CallRejected(c) ==
    /\ cb_pc[c] = "idle"
    /\ calls_made < MaxCalls
    /\ ~Admitted
    /\ cb_result' = [cb_result EXCEPT ![c] = "CircuitBreakerError"]
    /\ calls_made' = calls_made + 1
    /\ UNCHANGED <<breakerVars, now, cb_pc, admitted_in, streak, half_open_successes,
                   op_calls>>
    /\ UNCHANGED <<gameAll, restAll, cacheAll, dedupAll>>

\* _on_success closing one success late (">" for ">=")
_on_success_closes_late ==
    /\ _failure_count' = 0
    /\ IF _state = "half_open"
       THEN IF _success_count + 1 > success_threshold
            THEN /\ _state' = "closed"
                 /\ _success_count' = 0
            ELSE /\ _success_count' = _success_count + 1
                 /\ UNCHANGED _state
       ELSE UNCHANGED <<_state, _success_count>>
    /\ UNCHANGED _last_failure_time

\* _on_success, lines 188-211
_on_success ==
    /\ _failure_count' = 0
    /\ IF _state = "half_open"
       THEN IF _success_count + 1 >= success_threshold
            THEN /\ _state' = "closed"
                 /\ _success_count' = 0
            ELSE /\ _success_count' = _success_count + 1
                 /\ UNCHANGED _state
       ELSE UNCHANGED <<_state, _success_count>>
    /\ UNCHANGED _last_failure_time

\* _on_failure opening one failure late (">" for ">=")
_on_failure_opens_late ==
    /\ _failure_count' = _failure_count + 1
    /\ _last_failure_time' = now
    /\ IF _state = "half_open"
       THEN /\ _state' = "open"
            /\ _success_count' = 0
       ELSE IF _failure_count + 1 > failure_threshold
       THEN /\ _state' = "open"
            /\ UNCHANGED _success_count
       ELSE UNCHANGED <<_state, _success_count>>

\* _on_failure, lines 220-257
_on_failure ==
    /\ _failure_count' = _failure_count + 1
    /\ _last_failure_time' = now
    /\ IF _state = "half_open"
       THEN /\ _state' = "open"
            /\ _success_count' = 0
       ELSE IF _failure_count + 1 >= failure_threshold
       THEN /\ _state' = "open"
            /\ UNCHANGED _success_count
       ELSE UNCHANGED <<_state, _success_count>>

\* call, lines 152-154: func returned
OpSucceeds(c) ==
    /\ cb_pc[c] = "running"
    /\ _on_success
    /\ cb_pc' = [cb_pc EXCEPT ![c] = "idle"]
    /\ cb_result' = [cb_result EXCEPT ![c] = "returned"]
    /\ admitted_in' = [admitted_in EXCEPT ![c] = "none"]
    /\ streak' = 0
    /\ half_open_successes' =
           IF _state = "half_open" THEN half_open_successes + 1 ELSE half_open_successes
    /\ UNCHANGED <<now, op_calls, calls_made>>
    /\ UNCHANGED <<gameAll, restAll, cacheAll, dedupAll>>

\* call, lines 156-158: func raised one of expected_exceptions
OpFails(c) ==
    /\ cb_pc[c] = "running"
    /\ _on_failure
    /\ cb_pc' = [cb_pc EXCEPT ![c] = "idle"]
    /\ cb_result' = [cb_result EXCEPT ![c] = "expected_exception"]
    /\ admitted_in' = [admitted_in EXCEPT ![c] = "none"]
    /\ streak' = streak + 1
    /\ UNCHANGED <<now, half_open_successes, op_calls, calls_made>>
    /\ UNCHANGED <<gameAll, restAll, cacheAll, dedupAll>>

\* call counting every exception of func as a failure ("except Exception")
OpRaisesOther_counted(c) ==
    /\ cb_pc[c] = "running"
    /\ _on_failure
    /\ cb_pc' = [cb_pc EXCEPT ![c] = "idle"]
    /\ cb_result' = [cb_result EXCEPT ![c] = "other_exception"]
    /\ admitted_in' = [admitted_in EXCEPT ![c] = "none"]
    /\ UNCHANGED <<now, streak, half_open_successes, op_calls, calls_made>>
    /\ UNCHANGED <<gameAll, restAll, cacheAll, dedupAll>>

\* call, lines 151-158: func raised an exception outside expected_exceptions
OpRaisesOther(c) ==
    /\ cb_pc[c] = "running"
    /\ cb_pc' = [cb_pc EXCEPT ![c] = "idle"]
    /\ cb_result' = [cb_result EXCEPT ![c] = "other_exception"]
    /\ admitted_in' = [admitted_in EXCEPT ![c] = "none"]
    /\ UNCHANGED <<breakerVars, now, streak, half_open_successes, op_calls, calls_made>>
    /\ UNCHANGED <<gameAll, restAll, cacheAll, dedupAll>>

Tick ==
    /\ now < MaxTime
    /\ now' = now + 1
    /\ UNCHANGED <<breakerVars, cb_pc, cb_result, admitted_in, streak, half_open_successes,
                   op_calls, calls_made>>
    /\ UNCHANGED <<gameAll, restAll, cacheAll, dedupAll>>

\* CircuitBreaker.__init__, lines 73-79
BreakerStart ==
    /\ _state = "closed"
    /\ _failure_count = 0
    /\ _success_count = 0
    /\ _last_failure_time = NoTime
    /\ now = 0
    /\ cb_pc = [c \in BreakerCallers |-> "idle"]
    /\ cb_result = [c \in BreakerCallers |-> "none"]
    /\ admitted_in = [c \in BreakerCallers |-> "none"]
    /\ streak = 0
    /\ half_open_successes = 0
    /\ op_calls = 0
    /\ calls_made = 0

\* The game object before any call (the lobby of a new game), for the
\* specifications of the other subsystems.
GameStart ==
    /\ phase = "lobby"
    /\ players = <<>>
    /\ dealer = Player(DEALER_ID, TRUE)
    /\ deck = <<>>
    /\ current_turn_index = 0
    /\ last_call = [op |-> "init", user_id |-> DEALER_ID, ret |-> "True"]

NoCallInFlight == \A c \in BreakerCallers : cb_pc[c] = "idle"

\* Calls made one after another: a call starts only when none is in flight.
BreakerSeqNext ==
    \/ \E c \in BreakerCallers : NoCallInFlight /\ CallAdmitted(c)
    \/ \E c \in BreakerCallers : NoCallInFlight /\ CallRejected(c)
    \/ \E c \in BreakerCallers : OpSucceeds(c)
    \/ \E c \in BreakerCallers : OpFails(c)
    \/ \E c \in BreakerCallers : OpRaisesOther(c)
    \/ Tick

\* reset closing the breaker with the failures counted so far
Reset_keeps_failures ==
    /\ _state' = "closed"
    /\ _success_count' = 0
    /\ _last_failure_time' = NoTime
    /\ streak' = 0
    /\ half_open_successes' = 0
    /\ UNCHANGED <<_failure_count, now, cb_pc, cb_result, admitted_in, op_calls,
                   calls_made>>
    /\ UNCHANGED <<gameAll, restAll, cacheAll, dedupAll>>

\* reset, lines 297-305
Reset ==
    /\ _state' = "closed"
    /\ _failure_count' = 0
    /\ _success_count' = 0
    /\ _last_failure_time' = NoTime
    /\ streak' = 0
    /\ half_open_successes' = 0
    /\ UNCHANGED <<now, cb_pc, cb_result, admitted_in, op_calls, calls_made>>
    /\ UNCHANGED <<gameAll, restAll, cacheAll, dedupAll>>

\* Concurrent callers: a call starts whatever the other callers are doing, and
\* the breaker may be reset at any moment.
BreakerNext ==
    \/ \E c \in BreakerCallers : CallAdmitted(c)
    \/ \E c \in BreakerCallers : CallRejected(c)
    \/ \E c \in BreakerCallers : OpSucceeds(c)
    \/ \E c \in BreakerCallers : OpFails(c)
    \/ \E c \in BreakerCallers : OpRaisesOther(c)
    \/ Tick
    \/ Reset


(***************************************************************************)
(* The api_cache table (utils/database.py).  Every operation runs under    *)
(* Database._lock from its first statement to its commit, so each is one   *)
(* step.                                                                   *)
(***************************************************************************)
CACHE_TIMEOUT == 60
MAX_CACHE_SIZE == 200

\* Rows the table holds when the database file is opened, the keys no row
\* exists for yet, the clock's range and the cap on access_count.
Prefill == 19
NewKeys == 1
WallTicks == 2
MaxAccess == 2

CacheKeys == 1..(Prefill + NewKeys)
\* The keys the modelled calls address: the oldest row and the new keys.
OpKeys == {1} \cup ((Prefill + 1)..(Prefill + NewKeys))
\* max_size and max_age as the callers may pass them
MaxSizes == {0, 2, 20}
MaxAges == {2, CACHE_TIMEOUT}
DataVals == {"sets"}

NoRow == [data |-> "absent", created_at |-> 0, last_accessed |-> 0, access_count |-> 0]
Row(data, t) == [data |-> data, created_at |-> t, last_accessed |-> t, access_count |-> 1]
Rows(tbl) == {k \in CacheKeys : tbl[k] # NoRow}

Min(a, b) == IF a < b THEN a ELSE b
Max(a, b) == IF a > b THEN a ELSE b

\* get_cache, lines 283-320: the table after the call and the value returned
get_cache(tbl, cache_key, max_age, current_time) ==
    LET row == tbl[cache_key]
        age == current_time - row.created_at
    IN  IF row # NoRow
        THEN IF age < max_age
             THEN [tbl |-> [tbl EXCEPT ![cache_key].last_accessed = current_time,
                                       ![cache_key].access_count = @ + 1],
                   data |-> row.data]
             ELSE [tbl |-> [tbl EXCEPT ![cache_key] = NoRow], data |-> "None"]
        ELSE [tbl |-> tbl, data |-> "None"]

\* The sets of rows "ORDER BY created_at ASC LIMIT n" may select
OldestCreated(tbl, n) ==
    LET present == Rows(tbl)
        m == Min(n, Cardinality(present))
    IN  {V \in SUBSET {k \in present :
                 Cardinality({j \in present : tbl[j].created_at < tbl[k].created_at}) < m} :
            /\ Cardinality(V) = m
            /\ \A v \in V : \A k \in present \ V :
                   tbl[v].created_at <= tbl[k].created_at}

\* The sets of rows "SELECT cache_key FROM api_cache ORDER BY last_accessed
\* ASC LIMIT n" may select: rows of equal last_accessed come in any order.
LeastRecentlyAccessed(tbl, n) ==
    LET present == Rows(tbl)
        m == Min(n, Cardinality(present))
    IN  {V \in SUBSET {k \in present :
                 Cardinality({j \in present : tbl[j].last_accessed < tbl[k].last_accessed}) < m} :
            /\ Cardinality(V) = m
            /\ \A v \in V : \A k \in present \ V :
                   tbl[v].last_accessed <= tbl[k].last_accessed}

\* INSERT ... ON CONFLICT(cache_key) DO UPDATE, lines 367-377
Upsert(tbl, cache_key, data, current_time) ==
    IF tbl[cache_key] = NoRow
    THEN [tbl EXCEPT ![cache_key] = Row(data, current_time)]
    ELSE [tbl EXCEPT ![cache_key].data = data,
                     ![cache_key].created_at = current_time,
                     ![cache_key].last_accessed = current_time]

\* set_cache evicting only once the table holds more than max_size rows
set_cache_evicts_late(tbl, cache_key, data, max_size, current_time) ==
    LET cache_size == Cardinality(Rows(tbl))
        remove_count == Max(1, max_size \div 10)
    IN  IF cache_size > max_size
        THEN {[tbl |-> Upsert([k \in CacheKeys |-> IF k \in V THEN NoRow ELSE tbl[k]],
                              cache_key, data, current_time),
               evicted |-> V] : V \in LeastRecentlyAccessed(tbl, remove_count)}
        ELSE {[tbl |-> Upsert(tbl, cache_key, data, current_time), evicted |-> {}]}

\* set_cache, lines 340-380: every table the call may leave, with the rows
\* it deleted
set_cache(tbl, cache_key, data, max_size, current_time) ==
    LET cache_size == Cardinality(Rows(tbl))
        remove_count == Max(1, max_size \div 10)
    IN  IF cache_size >= max_size
        THEN {[tbl |-> Upsert([k \in CacheKeys |-> IF k \in V THEN NoRow ELSE tbl[k]],
                              cache_key, data, current_time),
               evicted |-> V] : V \in LeastRecentlyAccessed(tbl, remove_count)}
        ELSE {[tbl |-> Upsert(tbl, cache_key, data, current_time), evicted |-> {}]}

\* cleanup_expired_cache, lines 452-460
cleanup_expired_cache(tbl, max_age, current_time) ==
    [k \in CacheKeys |->
        IF tbl[k] # NoRow /\ tbl[k].created_at < current_time - max_age
        THEN NoRow ELSE tbl[k]]

\* cleanup_expired_cache, lines 456-457: len of the rows DELETE ... RETURNING
\* handed back
deleted_count(tbl, max_age, current_time) ==
    Cardinality(Rows(tbl) \ Rows(cleanup_expired_cache(tbl, max_age, current_time)))

CacheOp(op, key, max_size, evicted) ==
    [op |-> op, key |-> key, max_size |-> max_size, evicted |-> evicted]

\* What a get_cache call is observed to do: its arguments and its return value
GetOp(key, max_age, ret) ==
    [op |-> "get_cache", key |-> key, max_size |-> 0, evicted |-> {},
     max_age |-> max_age, ret |-> ret]

GetCache ==
    \E k \in OpKeys, max_age \in MaxAges :
        /\ cache[k].access_count < MaxAccess
        /\ cache' = get_cache(cache, k, max_age, wall).tbl
        /\ cache_op' = GetOp(k, max_age, get_cache(cache, k, max_age, wall).data)
        /\ UNCHANGED <<wall, gameAll, restAll, breakerAll, dedupAll>>

SetCache ==
    \E k \in OpKeys, data \in DataVals, max_size \in MaxSizes :
        \E r \in set_cache(cache, k, data, max_size, wall) :
            /\ cache' = r.tbl
            /\ cache_op' = CacheOp("set_cache", k, max_size, r.evicted)
            /\ UNCHANGED <<wall, gameAll, restAll, breakerAll, dedupAll>>

ClearCache ==
    /\ cache' = [k \in CacheKeys |-> NoRow]
    /\ cache_op' = CacheOp("clear_cache", 0, 0, {})
    /\ UNCHANGED <<wall, gameAll, restAll, breakerAll, dedupAll>>

CleanupExpiredCache ==
    \E max_age \in MaxAges :
        /\ cache' = cleanup_expired_cache(cache, max_age, wall)
        /\ cache_op' = CacheOp("cleanup_expired_cache", 0, 0, {})
        /\ UNCHANGED <<wall, gameAll, restAll, breakerAll, dedupAll>>

WallTick ==
    /\ wall < Prefill + WallTicks
    /\ wall' = wall + 1
    /\ UNCHANGED <<cache, cache_op, gameAll, restAll, breakerAll, dedupAll>>

\* The table of a new database file
CacheEmpty ==
    /\ cache = [k \in CacheKeys |-> NoRow]
    /\ wall = 0
    /\ cache_op = CacheOp("init", 0, 0, {})

\* The table of a database file written by earlier runs: Prefill rows,
\* stored one per tick and not read since.
CacheStart ==
    /\ cache = [k \in CacheKeys |-> IF k <= Prefill THEN Row("sets", k) ELSE NoRow]
    /\ wall = Prefill
    /\ cache_op = CacheOp("init", 0, 0, {})

CacheNext ==
    \/ GetCache
    \/ SetCache
    \/ ClearCache
    \/ CleanupExpiredCache
    \/ WallTick

(***************************************************************************)
(* The table of a new database file used with one max_size throughout:     *)
(* the caller's max_size is chosen at the start and recorded with every    *)
(* call; the calls address one key more than the table may hold.           *)
(***************************************************************************)
MaxFixedSize == 3
FixedSizes == 1..MaxFixedSize
SizedKeys == 1..(MaxFixedSize + 1)

SizedStart ==
    /\ cache = [k \in CacheKeys |-> NoRow]
    /\ wall = 0
    /\ \E max_size \in FixedSizes : cache_op = CacheOp("init", 0, max_size, {})

SizedSet ==
    \E k \in SizedKeys, data \in DataVals :
        \E r \in set_cache(cache, k, data, cache_op.max_size, wall) :
            /\ cache' = r.tbl
            /\ cache_op' = CacheOp("set_cache", k, cache_op.max_size, r.evicted)
            /\ UNCHANGED <<wall, gameAll, restAll, breakerAll, dedupAll>>

SizedGet ==
    \E k \in SizedKeys, max_age \in MaxAges :
        /\ cache[k].access_count < MaxAccess
        /\ cache' = get_cache(cache, k, max_age, wall).tbl
        /\ cache_op' = CacheOp("get_cache", k, cache_op.max_size, {})
        /\ UNCHANGED <<wall, gameAll, restAll, breakerAll, dedupAll>>

SizedClear ==
    /\ cache' = [k \in CacheKeys |-> NoRow]
    /\ cache_op' = CacheOp("clear_cache", 0, cache_op.max_size, {})
    /\ UNCHANGED <<wall, gameAll, restAll, breakerAll, dedupAll>>

SizedCleanup ==
    \E max_age \in MaxAges :
        /\ cache' = cleanup_expired_cache(cache, max_age, wall)
        /\ cache_op' = CacheOp("cleanup_expired_cache", 0, cache_op.max_size, {})
        /\ UNCHANGED <<wall, gameAll, restAll, breakerAll, dedupAll>>

SizedTick ==
    /\ wall < WallTicks
    /\ wall' = wall + 1
    /\ UNCHANGED <<cache, cache_op, gameAll, restAll, breakerAll, dedupAll>>

SizedNext ==
    \/ SizedSet
    \/ SizedGet
    \/ SizedClear
    \/ SizedCleanup
    \/ SizedTick


(***************************************************************************)
(* SmogonAPIClient.get_sets and _deduplicate_request (utils/api_clients.py)*)
(* for callers that pass identical arguments.  A step runs from one        *)
(* suspension point of the coroutine to the next.  get_cache decides and   *)
(* returns under Database._lock, and neither its return nor the acquire of *)
(* the free per-key lock suspends, so the cache lookup and the critical    *)
(* section of _deduplicate_request that follows a miss are one step, taken *)
(* when the lookup releases the lock.  The two rate limiters admit more    *)
(* tasks than one key ever has in flight and are left out; a burst of      *)
(* calls is over before CACHE_TIMEOUT, so the wall clock stands still.     *)
(***************************************************************************)
NumGetters == 2
max_retries == 3
Getters == 1..NumGetters
\* cache_key and dedup_key of the identical arguments
TheKey == Prefill + 1
NoTask == 0

Task(st, outcome) == [st |-> st, outcome |-> outcome]

\* the critical section creating a task whether or not one is pending
CheckOrCreate_always_creates(pending, fresh) ==
    [task |-> fresh, created |-> TRUE, pending |-> fresh]

\* _deduplicate_request, lines 150-166: join the pending task or create one
CheckOrCreate(pending, fresh) ==
    IF pending # NoTask
    THEN [task |-> pending, created |-> FALSE, pending |-> pending]
    ELSE [task |-> fresh, created |-> TRUE, pending |-> fresh]

\* a cleanup that any awaiting call performs
Cleanup_by_anyone(pending, task, created) ==
    IF pending # NoTask /\ pending = task THEN NoTask ELSE pending

\* _deduplicate_request, lines 171-180: the creator's cleanup
Cleanup(pending, task, created) ==
    IF created /\ pending # NoTask /\ pending = task THEN NoTask ELSE pending

\* N calls of get_sets started together, as by asyncio.gather
GetSetsCalled ==
    /\ \A c \in Getters : gs_pc[c] = "idle"
    /\ gs_pc' = [c \in Getters |-> "start"]
    /\ UNCHANGED <<_pending_requests, tasks, gs_attempt, gs_task, gs_created,
                   gs_result, fetch_calls, rejected_tasks, lifecycle>>
    /\ UNCHANGED <<gameAll, restAll, breakerAll, cacheAll>>

\* get_sets, lines 525-544, then _deduplicate_request, lines 150-166
GetSetsLookup(c) ==
    /\ gs_pc[c] = "start"
    /\ LET r == get_cache(cache, TheKey, CACHE_TIMEOUT, wall)
           reg == CheckOrCreate(_pending_requests, Len(tasks) + 1)
       IN  /\ cache' = r.tbl
           /\ cache_op' = GetOp(TheKey, CACHE_TIMEOUT, r.data)
           /\ IF r.data # "None"
              THEN /\ gs_pc' = [gs_pc EXCEPT ![c] = "done"]
                   /\ gs_result' = [gs_result EXCEPT ![c] = r.data]
                   /\ UNCHANGED <<_pending_requests, tasks, gs_task, gs_created>>
              ELSE /\ gs_pc' = [gs_pc EXCEPT ![c] = "await"]
                   /\ tasks' = IF reg.created
                               THEN Append(tasks, Task("scheduled", "pending"))
                               ELSE tasks
                   /\ _pending_requests' = reg.pending
                   /\ gs_task' = [gs_task EXCEPT ![c] = reg.task]
                   /\ gs_created' = [gs_created EXCEPT ![c] = reg.created]
                   /\ UNCHANGED gs_result
    /\ UNCHANGED <<wall, gs_attempt, fetch_calls, rejected_tasks, lifecycle>>
    /\ UNCHANGED <<gameAll, restAll, breakerAll>>

\* get_session, lines 197-238: a missing or closed session is replaced and a
\* new sweep task is created, whatever _is_closing is.  The sweep task it
\* would cancel and await first is gone when the new one is created.
get_session(sess, sweep) ==
    IF sess \in {"none", "closed"}
    THEN [session |-> "open", _cleanup_task |-> "created"]
    ELSE [session |-> sess, _cleanup_task |-> sweep]

\* _fetch letting CircuitBreakerError through to the awaiting callers
_fetch_on_CircuitBreakerError_raises == "CircuitBreakerError"

\* _fetch, lines 537-542: what the task ends with on CircuitBreakerError
_fetch_on_CircuitBreakerError == "None"

\* _fetch, lines 533-542: the task runs; the breaker admits the call and
\* _fetch_smogon_sets is invoked (line 550 gets the session), or
\* CircuitBreakerError makes it return None
TaskStarts(t) ==
    /\ tasks[t].st = "scheduled"
    /\ IF Admitted
       THEN /\ IF _state = "open"
               THEN _state' = "half_open" /\ _success_count' = 0
               ELSE UNCHANGED <<_state, _success_count>>
            /\ tasks' = [tasks EXCEPT ![t].st = "fetching"]
            /\ fetch_calls' = fetch_calls + 1
            /\ session' = get_session(session, _cleanup_task).session
            /\ _cleanup_task' = get_session(session, _cleanup_task)._cleanup_task
            /\ UNCHANGED rejected_tasks
       ELSE /\ tasks' = [tasks EXCEPT ![t] = Task("done", _fetch_on_CircuitBreakerError)]
            /\ rejected_tasks' = rejected_tasks \cup {t}
            /\ UNCHANGED <<_state, _success_count, fetch_calls, session, _cleanup_task>>
    /\ UNCHANGED <<_is_closing, close_pc>>
    /\ UNCHANGED <<_failure_count, _last_failure_time, now, cb_pc, cb_result, admitted_in, streak,
                   half_open_successes, op_calls, calls_made>>
    /\ UNCHANGED <<_pending_requests, gs_pc, gs_attempt, gs_task, gs_created, gs_result>>
    /\ UNCHANGED <<gameAll, restAll, cacheAll>>

\* _fetch_smogon_sets, lines 559-580: the Pokemon is in the format file and
\* its sets are cached
TaskFound(t) ==
    /\ tasks[t].st = "fetching"
    /\ \E r \in set_cache(cache, TheKey, "sets", MAX_CACHE_SIZE, wall) :
           /\ cache' = r.tbl
           /\ cache_op' = CacheOp("set_cache", TheKey, MAX_CACHE_SIZE, r.evicted)
    /\ tasks' = [tasks EXCEPT ![t].st = "stored"]
    /\ UNCHANGED <<_pending_requests, gs_pc, gs_attempt, gs_task, gs_created, gs_result,
                   fetch_calls, rejected_tasks, lifecycle>>
    /\ UNCHANGED <<wall, gameAll, restAll, breakerAll>>

\* lines 565-572 / 579-580 and call, lines 152-154: the sets are returned
TaskReturns(t) ==
    /\ tasks[t].st = "stored"
    /\ _on_success
    /\ tasks' = [tasks EXCEPT ![t] = Task("done", "sets")]
    /\ UNCHANGED <<now, cb_pc, cb_result, admitted_in, streak, half_open_successes, op_calls,
                   calls_made>>
    /\ UNCHANGED <<_pending_requests, gs_pc, gs_attempt, gs_task, gs_created, gs_result,
                   fetch_calls, rejected_tasks, lifecycle>>
    /\ UNCHANGED <<gameAll, restAll, cacheAll>>

\* lines 582-587: the Pokemon is not in the format file, or the format is
\* unknown (404); None is returned and nothing is cached
TaskNotFound(t) ==
    /\ tasks[t].st = "fetching"
    /\ _on_success
    /\ tasks' = [tasks EXCEPT ![t] = Task("done", "None")]
    /\ UNCHANGED <<now, cb_pc, cb_result, admitted_in, streak, half_open_successes, op_calls,
                   calls_made>>
    /\ UNCHANGED <<_pending_requests, gs_pc, gs_attempt, gs_task, gs_created, gs_result,
                   fetch_calls, rejected_tasks, lifecycle>>
    /\ UNCHANGED <<gameAll, restAll, cacheAll>>

\* lines 588-596 and call, lines 156-158: any other status raises
\* ClientResponseError through the breaker
TaskFails(t) ==
    /\ tasks[t].st = "fetching"
    /\ _on_failure
    /\ tasks' = [tasks EXCEPT ![t] = Task("done", "ClientResponseError")]
    /\ UNCHANGED <<now, cb_pc, cb_result, admitted_in, streak, half_open_successes, op_calls,
                   calls_made>>
    /\ UNCHANGED <<_pending_requests, gs_pc, gs_attempt, gs_task, gs_created, gs_result,
                   fetch_calls, rejected_tasks, lifecycle>>
    /\ UNCHANGED <<gameAll, restAll, cacheAll>>

\* _deduplicate_request, lines 169-185: "await task" ends with the task's
\* outcome and the creator cleans up; then retry_on_error, decorators.py
\* lines 59-79
AwaitReturns(c) ==
    /\ gs_pc[c] = "await"
    /\ tasks[gs_task[c]].st = "done"
    /\ gs_result' = [gs_result EXCEPT ![c] = tasks[gs_task[c]].outcome]
    /\ _pending_requests' = Cleanup(_pending_requests, gs_task[c], gs_created[c])
    /\ gs_pc' = [gs_pc EXCEPT ![c] =
                    IF tasks[gs_task[c]].outcome = "ClientResponseError"
                         /\ gs_attempt[c] # max_retries - 1
                    THEN "sleep" ELSE "done"]
    /\ UNCHANGED <<tasks, gs_attempt, gs_task, gs_created, fetch_calls,
                   rejected_tasks, lifecycle>>
    /\ UNCHANGED <<gameAll, restAll, breakerAll, cacheAll>>

\* retry_on_error, decorators.py lines 59-61 and 79: the sleep is over and
\* get_sets is called again
RetryWakes(c) ==
    /\ gs_pc[c] = "sleep"
    /\ gs_pc' = [gs_pc EXCEPT ![c] = "start"]
    /\ gs_attempt' = [gs_attempt EXCEPT ![c] = @ + 1]
    /\ gs_task' = [gs_task EXCEPT ![c] = NoTask]
    /\ gs_created' = [gs_created EXCEPT ![c] = FALSE]
    /\ UNCHANGED <<_pending_requests, tasks, gs_result, fetch_calls,
                   rejected_tasks, lifecycle>>
    /\ UNCHANGED <<gameAll, restAll, breakerAll, cacheAll>>

getsAll ==
    <<_pending_requests, tasks, gs_pc, gs_attempt, gs_task, gs_created, gs_result,
      fetch_calls, rejected_tasks>>

\* close, line 327-328
close_session(sess) == IF sess = "open" THEN "closed" ELSE sess

\* close, lines 317-328: a live sweep task is cancelled and awaited;
\* without one the session is closed and close returns
CloseBegins ==
    /\ close_pc = "idle"
    /\ _is_closing' = TRUE
    /\ IF _cleanup_task \in {"created", "sleeping"}
       THEN /\ _cleanup_task' = "cancelling"
            /\ close_pc' = "await_sweep"
            /\ UNCHANGED session
       ELSE /\ session' = close_session(session)
            /\ close_pc' = "returned"
            /\ UNCHANGED _cleanup_task
    /\ UNCHANGED <<getsAll, gameAll, restAll, breakerAll, cacheAll>>

\* close, lines 322-328: the cancelled sweep task is over; the session is
\* closed and close returns
CloseResumes ==
    /\ close_pc = "await_sweep"
    /\ _cleanup_task # "cancelling"
    /\ session' = close_session(session)
    /\ close_pc' = "returned"
    /\ UNCHANGED <<_is_closing, _cleanup_task>>
    /\ UNCHANGED <<getsAll, gameAll, restAll, breakerAll, cacheAll>>

\* _cache_cleanup_loop, line 345: the new task tests _is_closing
SweepStarts ==
    /\ _cleanup_task = "created"
    /\ _cleanup_task' = IF _is_closing THEN "done" ELSE "sleeping"
    /\ UNCHANGED <<session, _is_closing, close_pc>>
    /\ UNCHANGED <<getsAll, gameAll, restAll, breakerAll, cacheAll>>

\* _cache_cleanup_loop, lines 345-348, and _cleanup_expired_cache, lines
\* 354-358: the sleep is over and the expired rows are deleted
SweepCleans ==
    /\ _cleanup_task = "sleeping"
    /\ cache' = cleanup_expired_cache(cache, CACHE_TIMEOUT, wall)
    /\ cache_op' = CacheOp("cleanup_expired_cache", 0, 0, {})
    /\ _cleanup_task' = IF _is_closing THEN "done" ELSE "sleeping"
    /\ UNCHANGED <<wall, session, _is_closing, close_pc>>
    /\ UNCHANGED <<getsAll, gameAll, restAll, breakerAll>>

\* _cache_cleanup_loop, lines 349-350: CancelledError ends the task
SweepCancelled ==
    /\ _cleanup_task = "cancelling"
    /\ _cleanup_task' = "done"
    /\ UNCHANGED <<session, _is_closing, close_pc>>
    /\ UNCHANGED <<getsAll, gameAll, restAll, breakerAll, cacheAll>>

\* SmogonAPIClient.__init__, lines 103-111, before any call
DedupStart ==
    /\ _pending_requests = NoTask
    /\ tasks = <<>>
    /\ gs_pc = [c \in Getters |-> "idle"]
    /\ gs_attempt = [c \in Getters |-> 0]
    /\ gs_task = [c \in Getters |-> NoTask]
    /\ gs_created = [c \in Getters |-> FALSE]
    /\ gs_result = [c \in Getters |-> "pending"]
    /\ fetch_calls = 0
    /\ rejected_tasks = {}
    /\ session = "none"
    /\ _is_closing = FALSE
    /\ _cleanup_task = "none"
    /\ close_pc = "idle"

DedupNext ==
    \/ GetSetsCalled
    \/ \E c \in Getters : GetSetsLookup(c)
    \/ \E t \in 1..Len(tasks) : TaskStarts(t)
    \/ \E t \in 1..Len(tasks) : TaskFound(t)
    \/ \E t \in 1..Len(tasks) : TaskReturns(t)
    \/ \E t \in 1..Len(tasks) : TaskNotFound(t)
    \/ \E t \in 1..Len(tasks) : TaskFails(t)
    \/ \E c \in Getters : AwaitReturns(c)
    \/ \E c \in Getters : RetryWakes(c)
    \/ CloseBegins
    \/ CloseResumes
    \/ SweepStarts
    \/ SweepCleans
    \/ SweepCancelled
    \/ Tick

(***************************************************************************)
(* retry_on_error (utils/decorators.py): one call of a wrapped function.   *)
(* rt.calls lists what each invocation of the function did, rt.sleeps the  *)
(* delays slept between them.                                              *)
(***************************************************************************)
MaxRetriesArg == 4
RETRY_BASE_DELAY == 1
RETRY_MAX_DELAY == 10
RetryCounts == 1..MaxRetriesArg
BaseDelays == {RETRY_BASE_DELAY, 3}
MaxDelays == {1, 4, RETRY_MAX_DELAY}

\* a backoff that doubles without a cap
delay_uncapped(base_delay, max_delay, attempt) == base_delay * (2 ^ attempt)

\* retry_on_error, line 72
delay(base_delay, max_delay, attempt) ==
    Min(base_delay * (2 ^ attempt), max_delay)

RetryCall(n, base_delay, max_delay) ==
    [max_retries |-> n, base_delay |-> base_delay, max_delay |-> max_delay,
     pc |-> "invoke", attempt |-> 0, calls |-> <<>>, sleeps |-> <<>>,
     outcome |-> "pending"]

\* lines 59-61: func returns and its result is returned
FuncReturns ==
    /\ rt.pc = "invoke"
    /\ rt' = [rt EXCEPT !.calls = Append(@, "result"), !.pc = "returned",
                        !.outcome = "result"]
    /\ UNCHANGED <<coreAll, limiterAll, lockAll, cardsAll, tableAll>>

\* lines 62-79: func raises one of the exceptions of the decorator; the last
\* attempt re-raises, any other one sleeps
FuncRaisesTransient ==
    /\ rt.pc = "invoke"
    /\ rt' = IF rt.attempt = rt.max_retries - 1
             THEN [rt EXCEPT !.calls = Append(@, "ClientError"), !.pc = "raised",
                             !.outcome = "ClientError"]
             ELSE [rt EXCEPT !.calls = Append(@, "ClientError"), !.pc = "sleep",
                             !.sleeps = Append(@, delay(rt.base_delay, rt.max_delay,
                                                        rt.attempt))]
    /\ UNCHANGED <<coreAll, limiterAll, lockAll, cardsAll, tableAll>>

\* lines 59-62: an exception outside the tuple is not caught
FuncRaisesOther ==
    /\ rt.pc = "invoke"
    /\ rt' = [rt EXCEPT !.calls = Append(@, "ValueError"), !.pc = "raised",
                        !.outcome = "ValueError"]
    /\ UNCHANGED <<coreAll, limiterAll, lockAll, cardsAll, tableAll>>

\* lines 79 and 59: the sleep is over, the loop goes to the next attempt
SleepEnds ==
    /\ rt.pc = "sleep"
    /\ rt' = [rt EXCEPT !.attempt = @ + 1, !.pc = "invoke"]
    /\ UNCHANGED <<coreAll, limiterAll, lockAll, cardsAll, tableAll>>

\* a call of a function decorated with any arguments
RetryStart ==
    rt \in {RetryCall(n, b, m) : n \in RetryCounts, b \in BaseDelays, m \in MaxDelays}

RetryIdle == rt = RetryCall(1, RETRY_BASE_DELAY, RETRY_MAX_DELAY)


(***************************************************************************)
(* The two rate limiters of SmogonAPIClient (utils/api_clients.py, lines   *)
(* 72-76) and every path of the client that sends an HTTP request.  A      *)
(* requester is one running call of one of these paths; a semaphore is the *)
(* number of permits left.                                                 *)
(***************************************************************************)
GLOBAL_API_MAX_CONCURRENT == 3
MAX_CONCURRENT_API_REQUESTS == 2
NumRequesters == 4
BATCH_SIZE == 2
Requesters == 1..NumRequesters
Paths ==
    {"_fetch_smogon_sets", "_fetch_pokemon_ev_yield", "_fetch_pokemon_sprite",
     "get_all_pokemon_names", "validate_api_connectivity",
     "find_pokemon_in_generation"}

\* the paths that take the local limiter inside the global one
TakesLocal(path) ==
    path \in {"_fetch_smogon_sets", "_fetch_pokemon_ev_yield", "_fetch_pokemon_sprite"}

\* the host a request of the path goes to
Target(path, pc) ==
    IF path = "_fetch_smogon_sets" THEN "smogon"
    ELSE IF path = "validate_api_connectivity" /\ pc = "http" THEN "smogon"
    ELSE "pokeapi"

\* the get_sets calls of one batch of a search, BATCH_SIZE in the code
Batch == 1..BATCH_SIZE
NoBatch == [i \in Batch |-> "none"]

\* The requests in progress: <<r, 0>> is the request of requester r itself,
\* <<r, i>> the request of the i-th get_sets call of its batch.
InProgress ==
    {<<r, 0>> : r \in {q \in Requesters : rq_pc[q] \in {"http", "http2"}}}
        \cup {s \in Requesters \X Batch : rq_inner[s[1]][s[2]] = "http"}
InProgressTo(target) ==
    {s \in InProgress :
        IF s[2] = 0 THEN Target(rq_path[s[1]], rq_pc[s[1]]) = target
        ELSE target = "smogon"}

\* a call of one of the paths; validate_api_connectivity, lines 255-259, sends
\* its request without taking a limiter
RequestStarts(r) ==
    /\ rq_pc[r] = "idle"
    /\ \E path \in Paths :
           /\ rq_path' = [rq_path EXCEPT ![r] = path]
           /\ rq_pc' = [rq_pc EXCEPT ![r] =
                           IF path = "validate_api_connectivity" THEN "http"
                           ELSE "global"]
    /\ UNCHANGED <<_global_rate_limiter, _rate_limiter, rq_inner>>
    /\ UNCHANGED <<coreAll, retryAll, lockAll, cardsAll, tableAll>>

\* "async with self._global_rate_limiter": lines 555, 643, 728, 770, 871 and,
\* around the batches of get_sets calls, line 460
AcquireGlobal(r) ==
    /\ rq_pc[r] \in {"global", "global2"}
    /\ _global_rate_limiter > 0
    /\ _global_rate_limiter' = _global_rate_limiter - 1
    /\ rq_pc' = [rq_pc EXCEPT ![r] =
                    IF rq_path[r] = "find_pokemon_in_generation" THEN "batch"
                    ELSE IF rq_path[r] = "get_all_pokemon_names" THEN "http"
                    ELSE IF rq_pc[r] = "global" THEN "local" ELSE "local2"]
    /\ UNCHANGED <<_rate_limiter, rq_path, rq_inner>>
    /\ UNCHANGED <<coreAll, retryAll, lockAll, cardsAll, tableAll>>

\* "async with self._rate_limiter": lines 556, 644, 729, 771
AcquireLocal(r) ==
    /\ rq_pc[r] \in {"local", "local2"}
    /\ _rate_limiter > 0
    /\ _rate_limiter' = _rate_limiter - 1
    /\ rq_pc' = [rq_pc EXCEPT ![r] = IF rq_pc[r] = "local" THEN "http" ELSE "http2"]
    /\ UNCHANGED <<_global_rate_limiter, rq_path, rq_inner>>
    /\ UNCHANGED <<coreAll, retryAll, lockAll, cardsAll, tableAll>>

\* the response is handled and the "async with" blocks around the request
\* are left; the sprite path and the validation go on to a second request
ResponseHandled(r) ==
    /\ rq_pc[r] \in {"http", "http2"}
    /\ _rate_limiter' = IF TakesLocal(rq_path[r]) THEN _rate_limiter + 1
                        ELSE _rate_limiter
    /\ _global_rate_limiter' = IF rq_path[r] = "validate_api_connectivity"
                               THEN _global_rate_limiter
                               ELSE _global_rate_limiter + 1
    /\ \E more \in BOOLEAN :
           rq_pc' = [rq_pc EXCEPT ![r] =
                        IF rq_pc[r] = "http2" THEN "idle"
                        ELSE IF rq_path[r] = "validate_api_connectivity" THEN "http2"
                        ELSE IF rq_path[r] = "_fetch_pokemon_sprite" /\ more
                             THEN "global2"
                        ELSE "idle"]
    /\ rq_path' = [rq_path EXCEPT ![r] = IF rq_pc'[r] = "idle" THEN "none" ELSE @]
    /\ UNCHANGED rq_inner
    /\ UNCHANGED <<coreAll, retryAll, lockAll, cardsAll, tableAll>>

\* find_pokemon_in_generation, lines 462-468: a batch of _fetch_format calls
\* is gathered.  Each is a get_sets call: `fetching` of them miss the cache
\* and go on to _fetch_smogon_sets, the others return without a request (a
\* cache hit, or a None from the open circuit breaker).
BatchStarts(r) ==
    /\ rq_pc[r] = "batch"
    /\ rq_inner[r] = NoBatch
    /\ \E fetching \in 0..BATCH_SIZE :
           rq_inner' = [rq_inner EXCEPT ![r] =
                           [i \in Batch |-> IF i <= fetching THEN "global" ELSE "done"]]
    /\ UNCHANGED <<_global_rate_limiter, _rate_limiter, rq_path, rq_pc>>
    /\ UNCHANGED <<coreAll, retryAll, lockAll, cardsAll, tableAll>>

\* _fetch_smogon_sets inside a search, line 555
InnerAcquireGlobal(r, i) ==
    /\ rq_inner[r][i] = "global"
    /\ _global_rate_limiter > 0
    /\ _global_rate_limiter' = _global_rate_limiter - 1
    /\ rq_inner' = [rq_inner EXCEPT ![r][i] = "local"]
    /\ UNCHANGED <<_rate_limiter, rq_path, rq_pc>>
    /\ UNCHANGED <<coreAll, retryAll, lockAll, cardsAll, tableAll>>

\* line 556
InnerAcquireLocal(r, i) ==
    /\ rq_inner[r][i] = "local"
    /\ _rate_limiter > 0
    /\ _rate_limiter' = _rate_limiter - 1
    /\ rq_inner' = [rq_inner EXCEPT ![r][i] = "http"]
    /\ UNCHANGED <<_global_rate_limiter, rq_path, rq_pc>>
    /\ UNCHANGED <<coreAll, retryAll, lockAll, cardsAll, tableAll>>

\* lines 557-600: the response is handled and both blocks are left
InnerResponseHandled(r, i) ==
    /\ rq_inner[r][i] = "http"
    /\ _rate_limiter' = _rate_limiter + 1
    /\ _global_rate_limiter' = _global_rate_limiter + 1
    /\ rq_inner' = [rq_inner EXCEPT ![r][i] = "done"]
    /\ UNCHANGED <<rq_path, rq_pc>>
    /\ UNCHANGED <<coreAll, retryAll, lockAll, cardsAll, tableAll>>

\* lines 468-478: asyncio.gather returned; either another batch follows or
\* the "async with self._global_rate_limiter" of line 460 is left
BatchesEnd(r) ==
    /\ rq_pc[r] = "batch"
    /\ \A i \in Batch : rq_inner[r][i] = "done"
    /\ rq_inner' = [rq_inner EXCEPT ![r] = NoBatch]
    /\ \E more \in BOOLEAN :
           IF more
           THEN UNCHANGED <<_global_rate_limiter, rq_pc, rq_path>>
           ELSE /\ _global_rate_limiter' = _global_rate_limiter + 1
                /\ rq_pc' = [rq_pc EXCEPT ![r] = "idle"]
                /\ rq_path' = [rq_path EXCEPT ![r] = "none"]
    /\ UNCHANGED _rate_limiter
    /\ UNCHANGED <<coreAll, retryAll, lockAll, cardsAll, tableAll>>

\* SmogonAPIClient.__init__, lines 72-76
LimiterStart ==
    /\ _global_rate_limiter = GLOBAL_API_MAX_CONCURRENT
    /\ _rate_limiter = MAX_CONCURRENT_API_REQUESTS
    /\ rq_path = [r \in Requesters |-> "none"]
    /\ rq_pc = [r \in Requesters |-> "idle"]
    /\ rq_inner = [r \in Requesters |-> NoBatch]


(***************************************************************************)
(* _deduplicate_request (utils/api_clients.py, lines 127-185) for callers  *)
(* of several keys, with the per-key lock.  A lock is 0 when free and the  *)
(* caller that holds it otherwise.  Neither critical section contains an   *)
(* await, so each is entered and left within one step.                     *)
(***************************************************************************)
NumDedupCallers == 3
NumKeys == 2
MaxFetches == 4
DedupCallers == 1..NumDedupCallers
Keys == 1..NumKeys

\* leaving the critical section with the lock still held
ReleaseLock_after_await(locks, key) == locks

\* the exit of "async with self._request_locks[key]", lines 150-166
ReleaseLock(locks, key) == [locks EXCEPT ![key] = 0]

\* the entry of "async with self._request_locks[key]", line 150
AcquireLock(locks, key, c) == [locks EXCEPT ![key] = c]

KeyTask(key, st, outcome) == [key |-> key, st |-> st, outcome |-> outcome]

\* a call of _deduplicate_request(key, fetch_func)
DedupCalled(c) ==
    /\ dd_pc[c] = "idle"
    /\ Len(dd_tasks) + Cardinality({d \in DedupCallers : dd_pc[d] = "register"}) < MaxFetches
    /\ \E key \in Keys : dd_key' = [dd_key EXCEPT ![c] = key]
    /\ dd_pc' = [dd_pc EXCEPT ![c] = "register"]
    /\ dd_task' = [dd_task EXCEPT ![c] = NoTask]
    /\ dd_created' = [dd_created EXCEPT ![c] = FALSE]
    /\ UNCHANGED <<_request_locks, dd_pending_requests, dd_tasks>>
    /\ UNCHANGED <<coreAll, retryAll, limiterAll, cardsAll, tableAll>>

\* lines 146-166: the critical section that joins or creates the task
Register(c) ==
    /\ dd_pc[c] = "register"
    /\ _request_locks[dd_key[c]] = 0
    /\ LET key == dd_key[c]
           reg == CheckOrCreate(dd_pending_requests[key], Len(dd_tasks) + 1)
       IN  /\ dd_tasks' = IF reg.created
                          THEN Append(dd_tasks, KeyTask(key, "running", "pending"))
                          ELSE dd_tasks
           /\ dd_pending_requests' = [dd_pending_requests EXCEPT ![key] = reg.pending]
           /\ dd_task' = [dd_task EXCEPT ![c] = reg.task]
           /\ dd_created' = [dd_created EXCEPT ![c] = reg.created]
           /\ _request_locks' = ReleaseLock(AcquireLock(_request_locks, key, c), key)
    /\ dd_pc' = [dd_pc EXCEPT ![c] = "await"]
    /\ UNCHANGED dd_key
    /\ UNCHANGED <<coreAll, retryAll, limiterAll, cardsAll, tableAll>>

\* fetch_func returns or raises
FetchEnds(t) ==
    /\ dd_tasks[t].st = "running"
    /\ \E outcome \in {"result", "ClientError"} :
           dd_tasks' = [dd_tasks EXCEPT ![t] = KeyTask(@.key, "done", outcome)]
    /\ UNCHANGED <<_request_locks, dd_pending_requests, dd_pc, dd_key, dd_task,
                   dd_created>>
    /\ UNCHANGED <<coreAll, retryAll, limiterAll, cardsAll, tableAll>>

\* lines 169-185: "await task" is over; the creator takes the lock and cleans up
AwaitEnds(c) ==
    /\ dd_pc[c] = "await"
    /\ dd_tasks[dd_task[c]].st = "done"
    /\ dd_created[c] => _request_locks[dd_key[c]] = 0
    /\ dd_pending_requests' =
           [dd_pending_requests EXCEPT ![dd_key[c]] =
               Cleanup(@, dd_task[c], dd_created[c])]
    /\ dd_pc' = [dd_pc EXCEPT ![c] = "idle"]
    /\ dd_task' = [dd_task EXCEPT ![c] = NoTask]
    /\ dd_created' = [dd_created EXCEPT ![c] = FALSE]
    /\ UNCHANGED <<_request_locks, dd_tasks, dd_key>>
    /\ UNCHANGED <<coreAll, retryAll, limiterAll, cardsAll, tableAll>>

\* SmogonAPIClient.__init__, lines 106-107
LockStart ==
    /\ _request_locks = [k \in Keys |-> 0]
    /\ dd_pending_requests = [k \in Keys |-> NoTask]
    /\ dd_tasks = <<>>
    /\ dd_pc = [c \in DedupCallers |-> "idle"]
    /\ dd_key = [c \in DedupCallers |-> 1]
    /\ dd_task = [c \in DedupCallers |-> NoTask]
    /\ dd_created = [c \in DedupCallers |-> FALSE]


RetryNext ==
    \/ FuncReturns
    \/ FuncRaisesTransient
    \/ FuncRaisesOther
    \/ SleepEnds

LimiterNext ==
    \/ \E r \in Requesters : RequestStarts(r)
    \/ \E r \in Requesters : AcquireGlobal(r)
    \/ \E r \in Requesters : AcquireLocal(r)
    \/ \E r \in Requesters : ResponseHandled(r)
    \/ \E r \in Requesters : BatchStarts(r)
    \/ \E r \in Requesters : \E i \in Batch : InnerAcquireGlobal(r, i)
    \/ \E r \in Requesters : \E i \in Batch : InnerAcquireLocal(r, i)
    \/ \E r \in Requesters : \E i \in Batch : InnerResponseHandled(r, i)
    \/ \E r \in Requesters : BatchesEnd(r)

LockNext ==
    \/ \E c \in DedupCallers : DedupCalled(c)
    \/ \E c \in DedupCallers : Register(c)
    \/ \E t \in 1..Len(dd_tasks) : FetchEnds(t)
    \/ \E c \in DedupCallers : AwaitEnds(c)


(***************************************************************************)
(* calculate_hand_value and is_soft_hand applied to every hand of up to    *)
(* MaxHandLen cards (blackjack_helpers.py:22-60, 95-130).                  *)
(***************************************************************************)
MaxHandLen == 4

Hands == UNION {[1..n -> RANKS] : n \in 0..MaxHandLen}

HandRec(cards) == [cards |-> cards, pc |-> "input", value |-> 0, soft |-> FALSE]

HandIdle == hv = HandRec(<<>>)
HandStart == hv \in {HandRec(cards) : cards \in Hands}

EvaluateHand ==
    /\ hv.pc = "input"
    /\ hv' = [hv EXCEPT !.pc = "done",
                        !.value = calculate_hand_value(hv.cards),
                        !.soft = is_soft_hand(hv.cards)]
    /\ UNCHANGED <<coreAll, retryAll, limiterAll, lockAll, dw, dk, tableAll>>

HandNext == EvaluateHand

(***************************************************************************)
(* determine_winner applied to every pair of totals up to MaxTotal and     *)
(* every pair of blackjack flags (blackjack_helpers.py:217-267).           *)
(***************************************************************************)
MaxTotal == 23

\* the dealer's bust tested before the player's
determine_winner_dealer_bust_first(player_value, dealer_value, player_blackjack, dealer_blackjack) ==
    IF player_blackjack /\ dealer_blackjack THEN "push"
    ELSE IF player_blackjack THEN "win"
    ELSE IF dealer_blackjack THEN "lose"
    ELSE IF dealer_value > BLACKJACK_VALUE THEN "win"
    ELSE IF player_value > BLACKJACK_VALUE THEN "lose"
    ELSE IF player_value > dealer_value THEN "win"
    ELSE IF player_value < dealer_value THEN "lose"
    ELSE "push"

determine_winner(player_value, dealer_value, player_blackjack, dealer_blackjack) ==
    IF player_blackjack /\ dealer_blackjack THEN "push"
    ELSE IF player_blackjack THEN "win"
    ELSE IF dealer_blackjack THEN "lose"
    ELSE IF player_value > BLACKJACK_VALUE THEN "lose"
    ELSE IF dealer_value > BLACKJACK_VALUE THEN "win"
    ELSE IF player_value > dealer_value THEN "win"
    ELSE IF player_value < dealer_value THEN "lose"
    ELSE "push"

WinnerRec(pv, dv, pb, db) ==
    [player_value |-> pv, dealer_value |-> dv, player_blackjack |-> pb,
     dealer_blackjack |-> db, pc |-> "input", result |-> "none"]

WinnerIdle == dw = WinnerRec(0, 0, FALSE, FALSE)
WinnerStart ==
    dw \in {WinnerRec(pv, dv, pb, db) :
                pv \in 0..MaxTotal, dv \in 0..MaxTotal, pb \in BOOLEAN, db \in BOOLEAN}

DetermineWinner ==
    /\ dw.pc = "input"
    /\ dw' = [dw EXCEPT !.pc = "done",
                        !.result = determine_winner(dw.player_value, dw.dealer_value,
                                                    dw.player_blackjack, dw.dealer_blackjack)]
    /\ UNCHANGED <<coreAll, retryAll, limiterAll, lockAll, hv, dk, tableAll>>

WinnerNext == DetermineWinner

(***************************************************************************)
(* Deck (blackjack_deck.py:85-133): two shoes constructed with the same    *)
(* seed argument and drawn until the empty-deck error.  The shoe is scaled *)
(* down to two suits and two ranks; random.shuffle under a seed is a       *)
(* permutation fixed by the seed, here a rotation followed by a reversal.  *)
(***************************************************************************)
MaxSeed == 3
BLACKJACK_NUM_DECKS_IN_SHOE == 2

SUITS == <<"spades", "hearts">>
DeckRanks == <<"A", "K">>
SeedArgs == 0..MaxSeed
\* random.randint(1, 1000000), scaled down
RandomSeeds == 1..MaxSeed

\* Deck._initialize_decks: the decks one after the other, suit by suit
_initialize_decks ==
    [k \in 1..(BLACKJACK_NUM_DECKS_IN_SHOE * Len(SUITS) * Len(DeckRanks)) |->
        [suit |-> SUITS[(((k - 1) \div Len(DeckRanks)) % Len(SUITS)) + 1],
         rank |-> DeckRanks[((k - 1) % Len(DeckRanks)) + 1]]]

ShoeSize == Len(_initialize_decks)

\* Deck._shuffle: random.seed(seed); random.shuffle(cards)
_shuffle(cards, seed) ==
    [k \in 1..Len(cards) |-> cards[((Len(cards) - k + seed) % Len(cards)) + 1]]

\* self.seed = seed or random.randint(1, 1000000)
seed_or_random(seed, randint) == IF seed # 0 THEN seed ELSE randint

DeckIds == {1, 2}
NoDeck == [pc |-> "none", seed |-> 0, cards |-> <<>>]

DeckRec(seed) ==
    [seed_arg |-> seed,
     decks |-> [i \in DeckIds |-> NoDeck],
     drawn |-> [i \in DeckIds |-> <<>>],
     raised |-> [i \in DeckIds |-> "none"]]

DeckIdle == dk = DeckRec(1)
DeckStart == dk \in {DeckRec(seed) : seed \in SeedArgs}

\* Deck(seed)
DeckConstructed(i) ==
    /\ dk.decks[i].pc = "none"
    /\ \E randint \in RandomSeeds :
           LET seed == seed_or_random(dk.seed_arg, randint)
           IN  dk' = [dk EXCEPT !.decks[i] =
                          [pc |-> "ready", seed |-> seed,
                           cards |-> _shuffle(_initialize_decks, seed)]]
    /\ UNCHANGED <<coreAll, retryAll, limiterAll, lockAll, hv, dw, tableAll>>

\* Deck.draw
DeckDraw(i) ==
    /\ dk.decks[i].pc = "ready"
    /\ dk.raised[i] = "none"
    /\ IF dk.decks[i].cards = <<>>
       THEN dk' = [dk EXCEPT !.raised[i] = "IndexError"]
       ELSE dk' = [dk EXCEPT
                      !.drawn[i] = Append(@, dk.decks[i].cards[Len(dk.decks[i].cards)]),
                      !.decks[i].cards = SubSeq(@, 1, Len(@) - 1)]
    /\ UNCHANGED <<coreAll, retryAll, limiterAll, lockAll, hv, dw, tableAll>>

DeckNext ==
    \/ \E i \in DeckIds : DeckConstructed(i)
    \/ \E i \in DeckIds : DeckDraw(i)

(***************************************************************************)
(* One game of one channel as the Blackjack cog and its views run it       *)
(* (cogs/blackjack.py, utils/blackjack_views.py): the registry entry       *)
(* active_games[channel_id], the lobby view, the game view and the turn    *)
(* timer.  The views and the timer hold the game object itself; only the   *)
(* leave and end commands look the game up in the registry.  Each handler  *)
(* is one step.                                                            *)
(***************************************************************************)
\* the ranks of the shoes the table is played with
TableRanks == {"6", "K"}

apiAll == <<breakerAll, cacheAll, dedupAll, retryAll, limiterAll, lockAll>>

\* _start_game, lines 166-201: the game is created, registered and shown
\* with its lobby view
TableRec ==
    [registered |-> TRUE, lobby_view |-> "alive", game_view |-> "none",
     timer |-> FALSE, force_ended |-> FALSE]

TableStart == tb = TableRec
TableIdle == tb = TableRec

TableGame ==
    /\ phase = "lobby"
    /\ players = <<>>
    /\ dealer = Player(DEALER_ID, TRUE)
    /\ deck \in [1..DeckLen -> TableRanks]
    /\ current_turn_index = 0
    /\ last_call = [op |-> "init", user_id |-> DEALER_ID, ret |-> "True"]

\* a game operation called by a handler that then leaves the table as t
TableCall(op, user_id, r, t) ==
    /\ ~r.g.ran_out
    /\ phase' = r.g.phase
    /\ players' = r.g.players
    /\ dealer' = r.g.dealer
    /\ deck' = r.g.deck
    /\ current_turn_index' = r.g.current_turn_index
    /\ last_call' = IF Rejected(r.ret) THEN RejectedCall
                     ELSE [op |-> op, user_id |-> user_id, ret |-> r.ret]
    /\ tb' = t
    /\ UNCHANGED <<apiAll, cardsAll, rg, tm>>

\* cleanup_game, cogs/blackjack.py lines 186-189
cleanup_callback(t) == [t EXCEPT !.registered = FALSE]

\* BlackjackLobbyView.join_button, lines 85-110
JoinButton ==
    /\ tb.lobby_view = "alive"
    /\ \E u \in Callers : TableCall("add_player", u, add_player(G, u), tb)

\* BlackjackLobbyView.start_button, lines 149-216
StartButton ==
    /\ tb.lobby_view = "alive"
    /\ Len(players) # 0
    /\ LET r == start_game(G)
           stopped == [tb EXCEPT !.lobby_view = "stopped"]
       IN  TableCall("start_game", DEALER_ID, r,
                     IF r.g.phase = "results" THEN cleanup_callback(stopped)
                     ELSE [stopped EXCEPT !.game_view = "alive", !.timer = TRUE])

\* BlackjackLobbyView.cancel_button, lines 219-232
CancelButton ==
    /\ tb.lobby_view = "alive"
    /\ tb' = cleanup_callback([tb EXCEPT !.lobby_view = "stopped"])
    /\ UNCHANGED <<gameAll, apiAll, cardsAll, rg, tm>>

\* BlackjackLobbyView.on_timeout, lines 242-267
LobbyTimeout ==
    /\ tb.lobby_view = "alive"
    /\ tb' = [cleanup_callback(tb) EXCEPT !.lobby_view = "stopped"]
    /\ UNCHANGED <<gameAll, apiAll, cardsAll, rg, tm>>

\* Blackjack._leave_game, lines 345-381
LeaveCommand ==
    /\ tb.registered
    /\ \E u \in Callers : TableCall("remove_player", u, remove_player(G, u), tb)

\* BlackjackGameView.update_game_state, lines 504-552: the turn timer is
\* cancelled; in RESULTS the entry is cleaned up and the view stopped,
\* otherwise a new turn timer is started
update_game_state(t, g) ==
    IF g.phase = "results"
    THEN [cleanup_callback(t) EXCEPT !.game_view = "stopped", !.timer = FALSE]
    ELSE [t EXCEPT !.timer = TRUE]

\* the callbacks of the game view's buttons, lines 460-502
GameButton(op, user_id, r) ==
    /\ tb.game_view = "alive"
    /\ TableCall(op, user_id, r,
                 IF Rejected(r.ret) THEN tb ELSE update_game_state(tb, r.g))

HitButton == \E u \in Callers : GameButton("hit", u, hit(G, u))
StandButton == \E u \in Callers : GameButton("stand", u, stand(G, u))
DoubleButton == \E u \in Callers : GameButton("double_down", u, double_down(G, u))
SplitButton == \E u \in Callers : GameButton("split", u, split(G, u))
SurrenderButton == \E u \in Callers : GameButton("surrender", u, surrender(G, u))

\* BlackjackGameView._turn_timeout, lines 610-653: the time is up.  After the
\* view has timed out self.message is None, so the edit raises and the task
\* ends with the stand done.
TimerExpires ==
    /\ tb.timer
    /\ LET ref == get_current_player(G)
           current_player == Deref(G, ref)
       IN  IF ref.kind = "none"
           THEN /\ tb' = [tb EXCEPT !.timer = FALSE]
                /\ UNCHANGED <<gameAll, apiAll, cardsAll, rg, tm>>
           ELSE \E r \in {stand(G, current_player.user_id)} :
                    TableCall("stand", current_player.user_id, r,
                              IF tb.game_view = "timed_out"
                              THEN [tb EXCEPT !.timer = FALSE]
                              ELSE update_game_state(tb, r.g))

\* BlackjackGameView.on_timeout, lines 673-692
ViewTimeout ==
    /\ tb.game_view = "alive"
    /\ tb' = [cleanup_callback(tb) EXCEPT !.game_view = "timed_out"]
    /\ UNCHANGED <<gameAll, apiAll, cardsAll, rg, tm>>

\* Blackjack._end_game, lines 436-487, called by someone allowed to
EndGame ==
    /\ tb.registered
    /\ tb' = [tb EXCEPT !.registered = FALSE, !.force_ended = TRUE]
    /\ UNCHANGED <<gameAll, apiAll, cardsAll, rg, tm>>

TableNext ==
    \/ JoinButton
    \/ StartButton
    \/ CancelButton
    \/ LobbyTimeout
    \/ LeaveCommand
    \/ HitButton
    \/ StandButton
    \/ DoubleButton
    \/ SplitButton
    \/ SurrenderButton
    \/ TimerExpires
    \/ ViewTimeout
    \/ EndGame

(***************************************************************************)
(* active_games[channel_id] of one channel and the games created in it     *)
(* (cogs/blackjack.py).  A game is its phase, its views and its turn       *)
(* timer; what its cards do is left open: a button or the timer either     *)
(* keeps the game in PLAYING or takes it to RESULTS.  The entry is the     *)
(* number of the registered game, 0 for no entry.                          *)
(***************************************************************************)
MaxGames == 3

GameRec(ph, lobby_view, game_view, timer) ==
    [phase |-> ph, lobby_view |-> lobby_view, game_view |-> game_view, timer |-> timer]

\* Blackjack.__init__, line 54
RegistryStart ==
    rg = [active |-> 0, games |-> <<>>, last_cleanup |-> [by |-> 0, entry |-> 0]]

\* lines 154-156, 238-240, 603-605: existing_game and existing_game.phase != ENDED
GameActive(r) == r.active # 0 /\ r.games[r.active].phase # "ended"

\* cleanup_game of game g, lines 186-189, 311-313, 678-680: whatever entry the
\* channel has is deleted
cleanup_game(r, g) ==
    [r EXCEPT !.active = 0, !.last_cleanup = [by |-> g, entry |-> r.active]]

StoreGame(r, g, rec) == [r EXCEPT !.games[g] = rec]

RegistryUnchanged == UNCHANGED <<coreAll, retryAll, limiterAll, lockAll, cardsAll, tb, tm>>

\* Blackjack._start_game, lines 152-201
NewGame ==
    /\ Len(rg.games) < MaxGames
    /\ ~GameActive(rg)
    /\ rg' = [rg EXCEPT !.games = Append(@, GameRec("lobby", "alive", "none", FALSE)),
                        !.active = Len(rg.games) + 1]
    /\ RegistryUnchanged

\* Blackjack._quick_start_game, lines 238-343, and bj_prefix, lines 603-710:
\* the game is registered and started at once
QuickStart ==
    /\ Len(rg.games) < MaxGames
    /\ ~GameActive(rg)
    /\ LET g == Len(rg.games) + 1
       IN  \E ph \in {"playing", "results"} :
               LET registered ==
                       [rg EXCEPT !.active = g,
                                  !.games = Append(@,
                                      IF ph = "results"
                                      THEN GameRec(ph, "none", "none", FALSE)
                                      ELSE GameRec(ph, "none", "alive", TRUE))]
               IN  rg' = IF ph = "results" THEN cleanup_game(registered, g)
                         ELSE registered
    /\ RegistryUnchanged

\* BlackjackLobbyView.start_button, lines 149-216
StartPressed(g) ==
    /\ rg.games[g].lobby_view = "alive"
    /\ \E ph \in {"playing", "results"} :
           rg' = IF ph = "results"
                 THEN cleanup_game(StoreGame(rg, g, GameRec(ph, "stopped", "none", FALSE)), g)
                 ELSE StoreGame(rg, g, GameRec(ph, "stopped", "alive", TRUE))
    /\ RegistryUnchanged

\* BlackjackLobbyView.cancel_button, lines 219-232, and on_timeout, lines 242-267
LobbyClosed(g) ==
    /\ rg.games[g].lobby_view = "alive"
    /\ rg' = cleanup_game(StoreGame(rg, g, [rg.games[g] EXCEPT !.lobby_view = "stopped"]), g)
    /\ RegistryUnchanged

\* a button of the game view, lines 460-552, whose operation is accepted
ButtonPressed(g) ==
    /\ rg.games[g].game_view = "alive"
    /\ rg.games[g].phase = "playing"
    /\ \E ph \in {"playing", "results"} :
           rg' = IF ph = "results"
                 THEN cleanup_game(StoreGame(rg, g, GameRec(ph, "stopped", "stopped", FALSE)), g)
                 ELSE StoreGame(rg, g, [rg.games[g] EXCEPT !.timer = TRUE])
    /\ RegistryUnchanged

\* BlackjackGameView._turn_timeout, lines 610-653; after the view's timeout
\* self.message is None and the task ends in the edit, before the cleanup
TimerStands(g) ==
    /\ rg.games[g].timer
    /\ \E ph \in {"playing", "results"} :
           rg' = IF rg.games[g].game_view = "timed_out"
                 THEN StoreGame(rg, g, [rg.games[g] EXCEPT !.phase = ph, !.timer = FALSE])
                 ELSE IF ph = "results"
                 THEN cleanup_game(StoreGame(rg, g, GameRec(ph, rg.games[g].lobby_view,
                                                            "stopped", FALSE)), g)
                 ELSE rg
    /\ RegistryUnchanged

\* BlackjackGameView.on_timeout, lines 673-692
ViewExpires(g) ==
    /\ rg.games[g].game_view = "alive"
    /\ rg' = cleanup_game(StoreGame(rg, g, [rg.games[g] EXCEPT !.game_view = "timed_out"]), g)
    /\ RegistryUnchanged

\* Blackjack._end_game, lines 436-487: _remove_game(channel_id)
EndCommand ==
    /\ rg.active # 0
    /\ rg' = cleanup_game(rg, rg.active)
    /\ RegistryUnchanged

RegistryNext ==
    \/ NewGame
    \/ QuickStart
    \/ \E g \in 1..Len(rg.games) : StartPressed(g)
    \/ \E g \in 1..Len(rg.games) : LobbyClosed(g)
    \/ \E g \in 1..Len(rg.games) : ButtonPressed(g)
    \/ \E g \in 1..Len(rg.games) : TimerStands(g)
    \/ \E g \in 1..Len(rg.games) : ViewExpires(g)
    \/ EndCommand

(***************************************************************************)
(* The turn timer of one BlackjackGameView (utils/blackjack_views.py,      *)
(* lines 504-653) as asyncio runs it: the _turn_timeout tasks, the running *)
(* update_game_state calls and start_turn_timer tasks, and _timer_lock.    *)
(* A step is the code between two awaits.  Task.cancel() marks the task;   *)
(* the CancelledError is raised in it when it next runs.  The game is its  *)
(* phase being RESULTS or not.  A slot of a finished task or call is used  *)
(* again.                                                                  *)
(***************************************************************************)
NumTimerTasks == 3
NumProcs == 3

TimerTasks == 1..NumTimerTasks
Procs == 1..NumProcs

\* A _turn_timeout task: where it stands, whether cancel() was called on it,
\* and (kept for the properties only) whether a turn has ended since it was
\* created.
NoTimer == [st |-> "none", cancel |-> FALSE, stale |-> FALSE]
NoProc == [kind |-> "none", pc |-> "idle", target |-> 0]

\* start_button, lines 198-216: the view is created with turn_task = None and
\* start_turn_timer is scheduled as a task
TimerStart ==
    tm = [turn_task |-> 0,
          timers |-> [t \in TimerTasks |-> NoTimer],
          procs |-> [p \in Procs |->
                        IF p = 1 THEN [kind |-> "start", pc |-> "lock", target |-> 0]
                        ELSE NoProc],
          lock |-> 0, results |-> FALSE, stopped |-> FALSE, message |-> TRUE]

TimerUnchanged == UNCHANGED <<coreAll, retryAll, limiterAll, lockAll, cardsAll, tb, rg>>

\* a _turn_timeout task that has been created and is not done
Live(m, t) == m.timers[t].st \notin {"none", "done"}

FreeProcs(m) == {p \in Procs : m.procs[p].pc = "idle"}
FreeTimers(m) ==
    {t \in TimerTasks :
        \/ m.timers[t].st = "none"
        \/ /\ m.timers[t].st = "done"
           /\ m.turn_task # t
           /\ \A p \in Procs : m.procs[p].target # t}
Least(S) == CHOOSE x \in S : \A y \in S : x <= y

\* the test of lines 519 and 563 left out: the task is never cancelled
turn_task_running_never(m) == FALSE

\* lines 519 and 563: self.turn_task and not self.turn_task.done()
turn_task_running(m) == m.turn_task # 0 /\ m.timers[m.turn_task].st # "done"

\* asyncio.create_task(self.start_turn_timer()), lines 552 and 643
create_start_task(m) ==
    [m EXCEPT !.procs[Least(FreeProcs(m))] = [kind |-> "start", pc |-> "lock", target |-> 0]]

\* line 574: self.turn_task = asyncio.create_task(self._turn_timeout())
create_turn_task(m) ==
    LET t == Least(FreeTimers(m))
    IN  [m EXCEPT !.timers[t] = [st |-> "created", cancel |-> FALSE, stale |-> FALSE],
                  !.turn_task = t]

\* lines 521 and 565: self.turn_task.cancel(), then "await self.turn_task"
\* with the lock held
cancel_and_await(m, p) ==
    [m EXCEPT !.timers[m.turn_task].cancel = TRUE,
              !.procs[p].pc = "await_cancel",
              !.procs[p].target = m.turn_task,
              !.lock = p]

\* lines 527-549 of update_game_state, after the lock is released
after_lock(m, p) ==
    [m EXCEPT !.procs[p].pc = IF m.results THEN "edit_results" ELSE "edit",
              !.procs[p].target = 0]

\* the turn has passed on: the tasks created before belong to a turn that
\* is over
turn_ended(m) ==
    [m EXCEPT !.timers = [t \in TimerTasks |->
                             IF Live(m, t) THEN [m.timers[t] EXCEPT !.stale = TRUE]
                             ELSE m.timers[t]]]

\* a button callback, lines 460-502: the operation is accepted, which ends
\* the turn (a stand, a bust) or not (a hit that stays below 22), and
\* update_game_state awaits interaction.response.defer()
ButtonAccepted ==
    /\ ~tm.stopped
    /\ ~tm.results
    /\ FreeProcs(tm) # {}
    /\ \E res, ends \in BOOLEAN :
           tm' = [(IF res \/ ends THEN turn_ended(tm) ELSE tm) EXCEPT
                      !.results = res,
                      !.procs[Least(FreeProcs(tm))] =
                          [kind |-> "update", pc |-> "defer", target |-> 0]]
    /\ TimerUnchanged

\* update_game_state, lines 518-526: the lock is taken
UpdateLocks(p) ==
    /\ tm.procs[p].kind = "update"
    /\ tm.procs[p].pc = "defer"
    /\ tm.lock = 0
    /\ tm' = IF turn_task_running(tm) THEN cancel_and_await(tm, p)
             ELSE after_lock(tm, p)
    /\ TimerUnchanged

\* lines 522-526: the cancelled task is done
UpdateCancelled(p) ==
    /\ tm.procs[p].kind = "update"
    /\ tm.procs[p].pc = "await_cancel"
    /\ tm.timers[tm.procs[p].target].st = "done"
    /\ tm' = after_lock([tm EXCEPT !.turn_task = 0, !.lock = 0], p)
    /\ TimerUnchanged

\* lines 529-552: the message is edited; in RESULTS the view is stopped,
\* otherwise start_turn_timer is scheduled.  After the view's timeout
\* self.message is None and the edit raises.
UpdateEdited(p) ==
    /\ tm.procs[p].kind = "update"
    /\ tm.procs[p].pc \in {"edit", "edit_results"}
    /\ LET ended == [tm EXCEPT !.procs[p] = NoProc]
       IN  tm' = IF ~tm.message THEN ended
                 ELSE IF tm.procs[p].pc = "edit_results"
                      THEN [ended EXCEPT !.stopped = TRUE]
                 ELSE create_start_task(ended)
    /\ TimerUnchanged

\* start_turn_timer, lines 561-574: the lock is taken
StartLocks(p) ==
    /\ tm.procs[p].kind = "start"
    /\ tm.procs[p].pc = "lock"
    /\ tm.lock = 0
    /\ ~turn_task_running(tm) => FreeTimers(tm) # {}
    /\ tm' = IF turn_task_running(tm) THEN cancel_and_await(tm, p)
             ELSE create_turn_task([tm EXCEPT !.procs[p] = NoProc])
    /\ TimerUnchanged

\* lines 566-574: the cancelled task is done and the new one is created
StartCancelled(p) ==
    /\ tm.procs[p].kind = "start"
    /\ tm.procs[p].pc = "await_cancel"
    /\ tm.timers[tm.procs[p].target].st = "done"
    /\ FreeTimers([tm EXCEPT !.procs[p] = NoProc]) # {}
    /\ tm' = create_turn_task([tm EXCEPT !.procs[p] = NoProc, !.lock = 0])
    /\ TimerUnchanged

\* _turn_timeout runs for the first time, or not at all when it was
\* cancelled before
TimerRuns(t) ==
    /\ tm.timers[t].st = "created"
    /\ tm' = [tm EXCEPT !.timers[t].st = IF tm.timers[t].cancel THEN "done" ELSE "sleeping"]
    /\ TimerUnchanged

\* lines 645-647: the CancelledError is raised at the await and caught
TimerCancelled(t) ==
    /\ tm.timers[t].st \in {"sleeping", "editing", "editing_results"}
    /\ tm.timers[t].cancel
    /\ tm' = [tm EXCEPT !.timers[t].st = "done"]
    /\ TimerUnchanged

\* lines 608-641: the time is up; the current player, if there is one, is
\* made to stand and the message is edited
TimerTimesOut(t) ==
    /\ tm.timers[t].st = "sleeping"
    /\ ~tm.timers[t].cancel
    /\ IF tm.results
       THEN tm' = [tm EXCEPT !.timers[t].st = "done"]
       ELSE \E res \in BOOLEAN :
                tm' = [turn_ended(tm) EXCEPT
                          !.results = res,
                          !.timers[t].st = IF ~tm.message THEN "done"
                                           ELSE IF res THEN "editing_results"
                                           ELSE "editing"]
    /\ TimerUnchanged

\* lines 622-643: the edit is over; in RESULTS the view is stopped, otherwise
\* start_turn_timer is scheduled
TimerEdited(t) ==
    /\ tm.timers[t].st \in {"editing", "editing_results"}
    /\ ~tm.timers[t].cancel
    /\ tm.timers[t].st = "editing" /\ tm.message => FreeProcs(tm) # {}
    /\ LET ended == [tm EXCEPT !.timers[t].st = "done"]
       IN  tm' = IF ~tm.message THEN ended
                 ELSE IF tm.timers[t].st = "editing_results"
                      THEN [ended EXCEPT !.stopped = TRUE]
                 ELSE create_start_task(ended)
    /\ TimerUnchanged

\* BlackjackGameView.on_timeout, lines 673-692
ViewTimesOut ==
    /\ ~tm.stopped
    /\ tm' = [tm EXCEPT !.stopped = TRUE, !.message = FALSE]
    /\ TimerUnchanged

TimerNext ==
    \/ ButtonAccepted
    \/ \E p \in Procs : UpdateLocks(p)
    \/ \E p \in Procs : UpdateCancelled(p)
    \/ \E p \in Procs : UpdateEdited(p)
    \/ \E p \in Procs : StartLocks(p)
    \/ \E p \in Procs : StartCancelled(p)
    \/ \E t \in TimerTasks : TimerRuns(t)
    \/ \E t \in TimerTasks : TimerCancelled(t)
    \/ \E t \in TimerTasks : TimerTimesOut(t)
    \/ \E t \in TimerTasks : TimerEdited(t)
    \/ ViewTimesOut

(***************************************************************************)
(* The lobby with more users than seats: the operations of BlackjackGame   *)
(* called by NumLobbyUsers users and the host, on a shoe that deals a full *)
(* table.                                                                  *)
(***************************************************************************)
NumLobbyUsers == 4
LobbyDeckLen == 9
LobbyCallers == 0..NumLobbyUsers

\* shoes whose cards alternate between two ranks
LobbyDecks ==
    {[i \in 1..LobbyDeckLen |-> IF i % 2 = 0 THEN a ELSE b] : a, b \in TableRanks}

LobbyGame ==
    /\ phase = "lobby"
    /\ players = <<>>
    /\ dealer = Player(DEALER_ID, TRUE)
    /\ deck \in LobbyDecks
    /\ current_turn_index = 0
    /\ last_call = [op |-> "init", user_id |-> DEALER_ID, ret |-> "True"]

LobbyAdd == \E u \in LobbyCallers : Call("add_player", u, add_player(G, u))
LobbyRemove == \E u \in LobbyCallers : Call("remove_player", u, remove_player(G, u))
LobbyStart == Call("start_game", DEALER_ID, start_game(G))
LobbyHit == \E u \in LobbyCallers : Call("hit", u, hit(G, u))
LobbyStand == \E u \in LobbyCallers : Call("stand", u, stand(G, u))
LobbyDoubleDown == \E u \in LobbyCallers : Call("double_down", u, double_down(G, u))
LobbySplit == \E u \in LobbyCallers : Call("split", u, split(G, u))
LobbySurrender == \E u \in LobbyCallers : Call("surrender", u, surrender(G, u))

LobbyNext ==
    \/ LobbyAdd
    \/ LobbyRemove
    \/ LobbyStart
    \/ LobbyHit
    \/ LobbyStand
    \/ LobbyDoubleDown
    \/ LobbySplit
    \/ LobbySurrender

vars ==
    <<phase, players, dealer, deck, current_turn_index, last_call,
      _state, _failure_count, _success_count, _last_failure_time, now, cb_pc,
      cb_result, admitted_in, streak, half_open_successes, op_calls, calls_made,
      cache, wall, cache_op,
      _pending_requests, tasks, gs_pc, gs_attempt, gs_task, gs_created, gs_result,
      fetch_calls, rejected_tasks, session, _is_closing, _cleanup_task, close_pc,
      rt, _global_rate_limiter, _rate_limiter, rq_path, rq_pc, rq_inner,
      _request_locks, dd_pending_requests, dd_tasks, dd_pc, dd_key, dd_task,
      dd_created, hv, dw, dk, tb, rg, tm>>

\* the subsystems a specification leaves alone, as constructed
CardsIdle == HandIdle /\ WinnerIdle /\ DeckIdle /\ TableIdle /\ RegistryStart /\ TimerStart
RestStart == RetryIdle /\ LimiterStart /\ LockStart /\ CardsIdle

GameSpecInit == GameInit /\ BreakerStart /\ CacheEmpty /\ DedupStart /\ RestStart
GameSpec == GameSpecInit /\ [][GameNext]_vars

BreakerInit == GameStart /\ BreakerStart /\ CacheEmpty /\ DedupStart /\ RestStart
BreakerSeqSpec == BreakerInit /\ [][BreakerSeqNext]_vars
BreakerSpec == BreakerInit /\ [][BreakerNext]_vars

CacheInit == GameStart /\ BreakerStart /\ CacheStart /\ DedupStart /\ RestStart
CacheSpec == CacheInit /\ [][CacheNext]_vars

DedupInit == GameStart /\ BreakerStart /\ CacheEmpty /\ DedupStart /\ RestStart
DedupSpec == DedupInit /\ [][DedupNext]_vars

CoreStart == GameStart /\ BreakerStart /\ CacheEmpty /\ DedupStart

RetryInit == CoreStart /\ RetryStart /\ LimiterStart /\ LockStart /\ CardsIdle
RetrySpec == RetryInit /\ [][RetryNext]_vars

LimiterInit == CoreStart /\ RetryIdle /\ LimiterStart /\ LockStart /\ CardsIdle
LimiterSpec == LimiterInit /\ [][LimiterNext]_vars

LockInit == CoreStart /\ RetryIdle /\ LimiterStart /\ LockStart /\ CardsIdle
LockSpec == LockInit /\ [][LockNext]_vars

OtherStart == CoreStart /\ RetryIdle /\ LimiterStart /\ LockStart

HandInit == OtherStart /\ HandStart /\ WinnerIdle /\ DeckIdle /\ TableIdle /\ RegistryStart /\ TimerStart
HandSpec == HandInit /\ [][HandNext]_vars

WinnerInit == OtherStart /\ HandIdle /\ WinnerStart /\ DeckIdle /\ TableIdle /\ RegistryStart /\ TimerStart
WinnerSpec == WinnerInit /\ [][WinnerNext]_vars

DeckInit == OtherStart /\ HandIdle /\ WinnerIdle /\ DeckStart /\ TableIdle /\ RegistryStart /\ TimerStart
DeckSpec == DeckInit /\ [][DeckNext]_vars

TableInit ==
    /\ TableGame /\ BreakerStart /\ CacheEmpty /\ DedupStart
    /\ RetryIdle /\ LimiterStart /\ LockStart
    /\ HandIdle /\ WinnerIdle /\ DeckIdle
    /\ TableStart /\ RegistryStart /\ TimerStart
TableSpec == TableInit /\ [][TableNext]_vars
\* The table left to its turn timer: a _turn_timeout task that is running
\* reaches the end of its time, whatever the users do or leave undone.  The
\* shoes alternate between two ranks.
TableTimerInit ==
    /\ TableInit
    /\ \E a, b \in TableRanks : deck = [i \in 1..DeckLen |-> IF i % 2 = 0 THEN a ELSE b]
TableTimerSpec == TableTimerInit /\ [][TableNext]_vars /\ WF_vars(TimerExpires)

RegistryInit == OtherStart /\ HandIdle /\ WinnerIdle /\ DeckIdle /\ TableIdle /\ RegistryStart /\ TimerStart
RegistrySpec == RegistryInit /\ [][RegistryNext]_vars

TimerInit == OtherStart /\ HandIdle /\ WinnerIdle /\ DeckIdle /\ TableIdle /\ RegistryStart /\ TimerStart
TimerSpec == TimerInit /\ [][TimerNext]_vars

SizedInit == GameStart /\ BreakerStart /\ SizedStart /\ DedupStart /\ RestStart
SizedCacheSpec == SizedInit /\ [][SizedNext]_vars

LobbyInit == LobbyGame /\ BreakerStart /\ CacheEmpty /\ DedupStart /\ RestStart
LobbySpec == LobbyInit /\ [][LobbyNext]_vars


(***************************************************************************)
(* Claims about the circuit breaker.                                       *)
(***************************************************************************)
CallStarts == calls_made' = calls_made + 1
StillOpen ==
    /\ _state = "open"
    /\ _last_failure_time # NoTime
    /\ now - _last_failure_time < recovery_timeout
TimeoutElapsed ==
    /\ _state = "open"
    /\ _last_failure_time # NoTime
    /\ now - _last_failure_time >= recovery_timeout

\* C3: with calls made one after another from CLOSED, the breaker is CLOSED
\* while fewer than failure_threshold matched failures have occurred since
\* the last success, it turns OPEN on the failure that makes the streak
\* failure_threshold, and a call made while it is OPEN and recovery_timeout
\* has not elapsed ends in CircuitBreakerError without invoking the
\* operation and without changing the breaker.
C3_OpensAtThreshold ==
    /\ [](_state = "closed" => streak < failure_threshold)
    /\ [][(_state = "closed" /\ _state' = "open")
             => streak' = failure_threshold]_vars
    /\ [][(CallStarts /\ StillOpen)
             => /\ op_calls' = op_calls
                /\ cb_pc' = cb_pc
                /\ \E c \in BreakerCallers : cb_result'[c] = "CircuitBreakerError"
                /\ UNCHANGED breakerVars]_vars

\* C3 witness: exactly failure_threshold calls were made, every one a matched
\* failure, the breaker is OPEN and the next call was rejected.
C3_Witness ==
    /\ _state = "open"
    /\ streak = failure_threshold
    /\ op_calls = failure_threshold
    /\ calls_made = failure_threshold + 1
    /\ \E c \in BreakerCallers : cb_result[c] = "CircuitBreakerError"

\* C4: a call made while OPEN with recovery_timeout elapsed since the last
\* failure moves the breaker to HALF_OPEN and invokes the operation; in
\* HALF_OPEN fewer than success_threshold successes have been recorded, the
\* success that makes them success_threshold closes the breaker with both
\* counters 0, and a matched failure in HALF_OPEN reopens it at once.
C4_Recovery ==
    /\ [][(CallStarts /\ TimeoutElapsed)
             => /\ _state' = "half_open"
                /\ op_calls' = op_calls + 1]_vars
    /\ [](_state = "half_open" => half_open_successes < success_threshold)
    /\ [][(_state = "half_open" /\ _state' = "closed")
             => /\ half_open_successes' = success_threshold
                /\ _failure_count' = 0
                /\ _success_count' = 0]_vars
    /\ [][(_state = "half_open" /\ streak' = streak + 1) => _state' = "open"]_vars
    /\ [][(_state = "half_open" /\ _state' # "half_open")
             => (streak' = streak + 1 \/ half_open_successes' = success_threshold)]_vars

\* C4 witness: the breaker opened after failure_threshold failures, a call
\* made after the timeout was admitted in HALF_OPEN, and success_threshold
\* successes there closed it.
C4_Witness ==
    /\ _state = "closed"
    /\ _last_failure_time # NoTime
    /\ now >= _last_failure_time + recovery_timeout
    /\ half_open_successes = success_threshold
    /\ op_calls = failure_threshold + success_threshold
    /\ calls_made = op_calls
    /\ _failure_count = 0
    /\ _success_count = 0


(***************************************************************************)
(* Claims about the Blackjack game, checked under GameSpec.               *)
(***************************************************************************)
\* The game object after the step
GNext ==
    [phase |-> phase', players |-> players', dealer |-> dealer', deck |-> deck',
     current_turn_index |-> current_turn_index', ran_out |-> FALSE]

\* An accepted call of the operation is the step being taken.
Accepted(op) == last_call'.op = op /\ gameAll' # gameAll

\* Every hand of every seat is BUST or SURRENDER.
SeatsAllOut(ps) ==
    /\ ps # <<>>
    /\ \A i \in 1..Len(ps) : \A j \in 1..Len(ps[i].hands) :
           ps[i].hands[j].status \in {"bust", "surrender"}

\* C1: a rejected hit, stand, double_down, split or surrender (phase not
\* PLAYING or DEALER_TURN, caller not the current player, hand not ACTIVE,
\* or the operation's own precondition false) returns the game with its
\* phase, turn index, every hand and the deck exactly as they were.
C1_RejectedLeavesGameUnchanged ==
    \A u \in Callers :
        /\ Rejected(hit(G, u).ret) => hit(G, u).g = G
        /\ Rejected(stand(G, u).ret) => stand(G, u).g = G
        /\ Rejected(double_down(G, u).ret) => double_down(G, u).g = G
        /\ Rejected(split(G, u).ret) => split(G, u).g = G
        /\ Rejected(surrender(G, u).ret) => surrender(G, u).g = G

\* A rejected call has just been made while the current seat holds a
\* three-card ACTIVE hand and another seat waits: double_down, split and
\* surrender fail on their own precondition, every call of the other seat
\* and of the dealer fails on the turn check.
C1_Witness ==
    /\ last_call = RejectedCall
    /\ phase = "playing"
    /\ Len(players) = 2
    /\ current_turn_index = 0
    /\ Len(players[1].hands[1].cards) = 3
    /\ players[1].hands[1].status = "active"
    /\ Rejected(double_down(G, players[1].user_id).ret)
    /\ Rejected(hit(G, players[2].user_id).ret)

\* C6: when the last seat finishes with every hand of every seat BUST or
\* SURRENDER the game goes from PLAYING straight to RESULTS: DEALER_TURN
\* is never entered with such seats, and the dealer's hand is still the
\* two cards of the initial deal, never hit and never marked.
C6_AllOutSkipsDealer ==
    /\ [](phase = "dealer_turn" => ~SeatsAllOut(players))
    /\ [][(phase = "playing" /\ SeatsAllOut(players'))
             => (phase' = "results" /\ dealer' = dealer)]_vars
    /\ []((phase = "results" /\ SeatsAllOut(players))
             => /\ Len(dealer.hands) = 1
                /\ Len(dealer.hands[1].cards) = BLACKJACK_INITIAL_CARDS_COUNT
                /\ dealer.hands[1].status = "active")

\* Two seats, one bust and one surrendered, and the game is in RESULTS.
C6_Witness ==
    /\ phase = "results"
    /\ Len(players) = 2
    /\ SeatsAllOut(players)
    /\ \E i \in 1..2 : players[i].hands[1].status = "bust"
    /\ \E i \in 1..2 : players[i].hands[1].status = "surrender"
    /\ Len(dealer.hands[1].cards) = 2

\* C7: in DEALER_TURN a dealer hit is accepted exactly when the total is
\* below 17 or a soft 17 and a dealer stand exactly when it is not; the
\* policy is applied on entering DEALER_TURN and after every dealer hit, so
\* DEALER_TURN is only ever observed with can_dealer_hit() true, and the
\* dealer's hand is marked STAND or BUST, in RESULTS, as soon as it is a
\* hard 17 or more, a soft 18 or more, or bust.
C7_DealerPolicy ==
    /\ [](phase = "dealer_turn"
             => /\ can_dealer_hit(G)
                /\ dealer.hands[1].status = "active"
                /\ ~Rejected(hit(G, DEALER_ID).ret) <=> can_dealer_hit(G)
                /\ ~Rejected(stand(G, DEALER_ID).ret) <=> can_dealer_stand(G))
    /\ [][(phase = "dealer_turn" /\ phase' # "dealer_turn")
             => /\ phase' = "results"
                /\ last_call'.op = "hit" /\ last_call'.user_id = DEALER_ID
                /\ ~can_dealer_hit(GNext)
                /\ dealer'.hands[1].status =
                       IF is_bust(dealer'.hands[1].cards) THEN "bust" ELSE "stand"]_vars
    /\ [](dealer.hands[1].status = "stand"
             => (phase = "results" /\ ~can_dealer_hit(G)
                   /\ ~is_bust(dealer.hands[1].cards)))

\* The dealer started on a soft 17, hit once and stands on the result.
C7_Witness ==
    /\ phase = "results"
    /\ last_call.op = "hit" /\ last_call.user_id = DEALER_ID
    /\ Len(dealer.hands[1].cards) = 3
    /\ is_soft_hand(SubSeq(dealer.hands[1].cards, 1, 2))
    /\ calculate_hand_value(SubSeq(dealer.hands[1].cards, 1, 2)) = 17
    /\ dealer.hands[1].status = "stand"

\* The deck without its n top cards
DeckAfter(n) == SubSeq(deck, 1, Len(deck) - n)

\* C8: split is accepted only for the current seat's ACTIVE two-card hand
\* of equal ranks; for a pair other than Aces the first hand becomes
\* [card1, drawn card] and stays current, the second hand [card2] is
\* inserted right after it, and nothing else changes.  A one-card hand
\* exists only behind the current hand of the seat in turn, it is dealt
\* exactly one card in the step that makes it current, and no hand has
\* fewer than two cards in DEALER_TURN or RESULTS.
C8_SplitSequentialDealing ==
    /\ [][Accepted("split")
             => LET s == current_turn_index + 1
                    p == players[s]
                    k == p.current_hand_index + 1
                    h == p.hands[k]
                    q == players'[s]
                IN  /\ phase = "playing" /\ current_turn_index < Len(players)
                    /\ last_call'.user_id = p.user_id
                    /\ h.status = "active" /\ Len(h.cards) = 2
                    /\ h.cards[1] = h.cards[2]
                    /\ (h.cards[1] # "A")
                          => /\ phase' = "playing"
                             /\ current_turn_index' = current_turn_index
                             /\ dealer' = dealer
                             /\ deck' = DeckAfter(1)
                             /\ q.current_hand_index = p.current_hand_index
                             /\ Len(q.hands) = Len(p.hands) + 1
                             /\ q.hands[k] = PlayerHand(<<h.cards[1], deck[Len(deck)]>>,
                                                        TRUE, FALSE)
                             /\ q.hands[k + 1] = PlayerHand(<<h.cards[2]>>, TRUE, FALSE)
                             /\ \A j \in 1..Len(p.hands) :
                                    /\ j < k => q.hands[j] = p.hands[j]
                                    /\ j > k => q.hands[j + 1] = p.hands[j]
                             /\ \A i \in 1..Len(players) :
                                    i # s => players'[i] = players[i]]_vars
    /\ [](\A s \in 1..Len(players) : \A j \in 1..Len(players[s].hands) :
             LET h == players[s].hands[j]
             IN  phase # "lobby"
                    => /\ Len(h.cards) >= 1
                       /\ Len(h.cards) = 1
                             => /\ phase = "playing"
                                /\ s = current_turn_index + 1
                                /\ j > players[s].current_hand_index + 1
                                /\ h.status = "active"
                                /\ h.is_split /\ ~h.is_split_aces)
    /\ [][\A s \in 1..Len(players) :
             (/\ Len(players') = Len(players)
              /\ players'[s].current_hand_index = players[s].current_hand_index + 1)
                => LET k == players'[s].current_hand_index + 1
                       old == players[s].hands[k].cards
                       new == players'[s].hands[k].cards
                   IN  /\ Len(old) = 1
                       /\ Len(new) = 2 /\ new[1] = old[1]
                       /\ new[2] \in {deck[i] : i \in (Len(deck') + 1)..Len(deck)}]_vars

\* After a split of a pair that is not Aces the first hand has been
\* finished and the second hand, now current, holds its second card.
C8_Witness ==
    /\ phase = "playing"
    /\ Len(players) = 1
    /\ Len(players[1].hands) = 2
    /\ players[1].current_hand_index = 1
    /\ players[1].hands[1].cards[1] # "A"
    /\ players[1].hands[1].status = "stand"
    /\ players[1].hands[2].is_split
    /\ players[1].hands[2].status = "active"
    /\ Len(players[1].hands[2].cards) = 2

\* C9: splitting a pair of Aces deals each of the two hands exactly one
\* card and marks both SPLIT_ACES within the split call, after which the
\* turn has left the seat; no later step changes a SPLIT_ACES hand.
C9_SplitAces ==
    /\ [][(Accepted("split")
             /\ players[current_turn_index + 1].hands[
                    players[current_turn_index + 1].current_hand_index + 1].cards[1] = "A")
             => LET s == current_turn_index + 1
                    p == players[s]
                    k == p.current_hand_index + 1
                    q == players'[s]
                    SplitAce(c) == [cards |-> <<"A", c>>, status |-> "split_aces",
                                    is_split |-> TRUE, is_split_aces |-> TRUE]
                IN  /\ Len(q.hands) = Len(p.hands) + 1
                    /\ q.hands[k] = SplitAce(deck[Len(deck)])
                    /\ q.hands[k + 1] = SplitAce(deck[Len(deck) - 1])
                    /\ deck' = DeckAfter(2)
                    /\ get_current_player(GNext) # SeatRef(current_turn_index)]_vars
    /\ [][\A s \in 1..Len(players) : \A j \in 1..Len(players[s].hands) :
             players[s].hands[j].status = "split_aces"
                => /\ Len(players') = Len(players)
                   /\ Len(players'[s].hands) = Len(players[s].hands)
                   /\ players'[s].hands[j] = players[s].hands[j]]_vars

\* A pair of Aces has just been split: two SPLIT_ACES hands of two cards
\* each, and the seat's turn is over.
C9_Witness ==
    /\ last_call.op = "split"
    /\ phase \in {"dealer_turn", "results"}
    /\ Len(players[1].hands) = 2
    /\ \A j \in 1..2 :
           /\ players[1].hands[j].status = "split_aces"
           /\ Len(players[1].hands[j].cards) = 2
           /\ players[1].hands[j].cards[1] = "A"

(***************************************************************************)
(* Claims about request deduplication, checked under DedupSpec.            *)
(***************************************************************************)
\* The caller's await has ended with its task's outcome.
Received(c) == gs_pc[c] \in {"sleep", "done"} /\ gs_task[c] # NoTask

\* C2: while a fetch for the key is in flight every caller of
\* _deduplicate_request joins it instead of starting another: a task is
\* created only when every earlier one is done, a caller that finds a
\* pending task awaits that task and invokes nothing, and every caller
\* receives the outcome of the task it awaited, a value or the failure.
C2_OneFetchShared ==
    /\ [](\A t \in 1..Len(tasks) : t < Len(tasks) => tasks[t].st = "done")
    /\ [](_pending_requests \in {NoTask, Len(tasks)})
    /\ [][\A c \in Getters :
             (gs_pc[c] = "start" /\ gs_pc'[c] = "await" /\ _pending_requests # NoTask)
                => /\ tasks' = tasks
                   /\ fetch_calls' = fetch_calls
                   /\ gs_task'[c] = _pending_requests
                   /\ ~gs_created'[c]]_vars
    /\ [](\A c \in Getters :
             Received(c) => /\ tasks[gs_task[c]].st = "done"
                            /\ gs_result[c] = tasks[gs_task[c]].outcome)

\* Two callers shared the only task, one created it and one joined, and
\* both were handed its failure.
C2_Witness ==
    /\ Len(tasks) = 1
    /\ \E c1, c2 \in Getters :
           /\ c1 # c2
           /\ Received(c1) /\ Received(c2)
           /\ gs_task[c1] = gs_task[c2]
           /\ gs_created[c1] /\ ~gs_created[c2]
           /\ gs_result[c1] = "ClientResponseError"
           /\ gs_result[c2] = "ClientResponseError"

\* C5: concurrent get_sets calls with identical arguments, started while
\* the value is not cached, invoke _fetch_smogon_sets exactly once: never
\* a second time, and once by the time every call has returned.
C5_FetchInvokedOnce ==
    /\ fetch_calls <= 1
    /\ (\A c \in Getters : gs_pc[c] = "done") => fetch_calls = 1

(***************************************************************************)
(* Claims about the cache table, checked under CacheSpec.                  *)
(***************************************************************************)
\* C10: set_cache called with the row count at or above max_size deletes
\* max(1, max_size // 10) rows, or every row if there are fewer, before it
\* inserts; every row that survives has a last_accessed no smaller than
\* that of every deleted row; below max_size nothing is deleted; every
\* surviving row other than the one written stays as it was.
C10_SetCacheEvictsLeastRecent ==
    [][(cache_op'.op = "set_cache" /\ <<cache, cache_op>>' # <<cache, cache_op>>)
          => LET present == Rows(cache)
                 count == Cardinality(present)
                 max_size == cache_op'.max_size
                 key == cache_op'.key
                 V == cache_op'.evicted
             IN  /\ V \subseteq present
                 /\ (count >= max_size)
                       => Cardinality(V) = Min(Max(1, max_size \div 10), count)
                 /\ (count < max_size) => V = {}
                 /\ \A v \in V : \A k \in present \ V :
                        cache[v].last_accessed <= cache[k].last_accessed
                 /\ \A k \in (present \ V) \ {key} : cache'[k] = cache[k]
                 /\ Rows(cache') = (present \ V) \cup {key}
                 /\ cache'[key].last_accessed = wall
                 /\ cache'[key].created_at = wall]_vars

\* A full table of max_size 20 has just lost two rows to set_cache while
\* the oldest row, refreshed by a get hit, is still there.
C10_Witness ==
    /\ cache_op.op = "set_cache"
    /\ cache_op.max_size = 20
    /\ Cardinality(cache_op.evicted) = 2
    /\ 1 \notin cache_op.evicted
    /\ cache[1] # NoRow
    /\ cache[1].created_at = 1
    /\ cache[1].access_count > 1

\* C11: get_cache on a stored row that is not older than max_age returns
\* its data, sets last_accessed to the current time and adds exactly 1 to
\* access_count, leaving created_at and every other row as they were; on a
\* row older than max_age it returns None and the row is gone; on a
\* missing key it returns None and changes nothing.
C11_GetCacheHitOrExpire ==
    [][(cache_op'.op = "get_cache" /\ <<cache, cache_op>>' # <<cache, cache_op>>)
          => LET key == cache_op'.key
                 row == cache[key]
                 age == wall - row.created_at
             IN  /\ \A k \in CacheKeys \ {key} : cache'[k] = cache[k]
                 /\ (row # NoRow /\ age <= cache_op'.max_age)
                       => /\ cache_op'.ret = row.data
                          /\ cache'[key] = [row EXCEPT !.last_accessed = wall,
                                                       !.access_count = @ + 1]
                 /\ (row # NoRow /\ age > cache_op'.max_age)
                       => /\ cache_op'.ret = "None"
                          /\ cache'[key] = NoRow
                 /\ (row = NoRow)
                       => /\ cache_op'.ret = "None"
                          /\ cache' = cache]_vars

\* C19: when the operation raises an exception outside expected_exceptions
\* the exception reaches the caller and the breaker's state, failure
\* count, success count and last failure time are what they were before
\* the call, for a call made in CLOSED and in HALF_OPEN alike: neither the
\* admission of such a call nor the end of the operation changes them.
C19_OtherExceptionUncounted ==
    /\ [][(CallStarts /\ _state # "open") => UNCHANGED breakerVars]_vars
    /\ [][\A c \in BreakerCallers :
             (cb_pc[c] = "running" /\ cb_result'[c] = "other_exception")
                => (cb_pc'[c] = "idle" /\ UNCHANGED breakerVars)]_vars

\* An unexpected exception has ended a call made in HALF_OPEN after a
\* recorded failure streak, and the breaker is still HALF_OPEN.
C19_Witness ==
    /\ _state = "half_open"
    /\ _failure_count = failure_threshold
    /\ NoCallInFlight
    /\ \E c \in BreakerCallers : cb_result[c] = "other_exception"

\* C20: double_down is accepted only for the seat in turn, never the
\* dealer, on an ACTIVE hand of exactly two cards; it draws the top card
\* onto that hand, which then has three cards and is BUST if its value
\* exceeds 21 and STAND otherwise, and the turn leaves the hand; a seat's
\* STAND or BUST hand is never changed by a later step.
C20_DoubleDown ==
    /\ [][Accepted("double_down")
             => LET s == current_turn_index + 1
                    p == players[s]
                    k == p.current_hand_index + 1
                    h == p.hands[k]
                    q == players'[s]
                    drawn == Append(h.cards, deck[Len(deck)])
                IN  /\ phase = "playing" /\ current_turn_index < Len(players)
                    /\ last_call'.user_id = p.user_id /\ ~p.is_dealer
                    /\ h.status = "active"
                    /\ Len(h.cards) = BLACKJACK_INITIAL_CARDS_COUNT
                    /\ last_call'.ret = deck[Len(deck)]
                    /\ dealer'.hands[1].cards = dealer.hands[1].cards
                    /\ Len(q.hands) = Len(p.hands)
                    /\ q.hands[k] = [h EXCEPT !.cards = drawn,
                                              !.status = IF is_bust(drawn) THEN "bust"
                                                         ELSE "stand"]
                    /\ \/ phase' # "playing"
                       \/ current_turn_index' # current_turn_index
                       \/ q.current_hand_index # p.current_hand_index]_vars
    /\ [][\A s \in 1..Len(players) : \A j \in 1..Len(players[s].hands) :
             players[s].hands[j].status \in {"stand", "bust"}
                => /\ Len(players') = Len(players)
                   /\ Len(players'[s].hands) >= j
                   /\ players'[s].hands[j] = players[s].hands[j]]_vars

\* The only seat has just doubled down on its two cards without busting:
\* three cards, STAND, and the turn is the dealer's or the game is over.
C20_Witness ==
    /\ last_call.op = "double_down"
    /\ Len(players) = 1
    /\ Len(players[1].hands[1].cards) = 3
    /\ players[1].hands[1].status = "stand"
    /\ phase \in {"dealer_turn", "results"}

(***************************************************************************)
(* Claims about the outcome of get_sets when the upstream is unavailable.  *)
(***************************************************************************)
\* C12: a call of get_sets made while the breaker is OPEN, or whose retries
\* are exhausted, ends in an outcome the caller can tell apart from a genuine
\* not-found answer: whoever receives the not-found value None received it
\* from a fetch that asked the upstream, never from a task the breaker refused.
C12_UnavailableIsNotNotFound ==
    \A c \in Getters :
        (gs_pc[c] = "done" /\ gs_result[c] = "None") => gs_task[c] \notin rejected_tasks

\* C13: when the breaker rejects the call inside get_sets, the task ends with
\* the not-found value None without invoking the fetch, changing the breaker
\* or writing the cache, and every caller awaiting that task returns None at
\* once: no exception, no retry, no backoff sleep.
C13_RejectionReturnsNotFound ==
    [][/\ \A t \in 1..Len(tasks) :
              (tasks[t].st = "scheduled" /\ ~Admitted /\ tasks'[t] # tasks[t]) =>
                  /\ tasks'[t] = Task("done", "None")
                  /\ fetch_calls' = fetch_calls
                  /\ cache' = cache
                  /\ UNCHANGED <<breakerVars, session>>
       /\ \A c \in Getters :
              (gs_pc[c] = "await" /\ gs_pc'[c] # "await"
                   /\ gs_task[c] \in rejected_tasks) =>
                  /\ gs_result'[c] = "None"
                  /\ gs_pc'[c] = "done"
                  /\ gs_attempt'[c] = gs_attempt[c]]_vars
C13_Witness ==
    \E c \in Getters :
        /\ gs_pc[c] = "done"
        /\ gs_task[c] \in rejected_tasks
        /\ gs_result[c] = "None"
        /\ _state = "open"
        /\ fetch_calls = failure_threshold


(***************************************************************************)
(* Claims about the rate limiters.                                         *)
(***************************************************************************)
\* C14: at every instant the HTTP requests in progress are at most the global
\* cap, and those in progress towards any one upstream target are at most the
\* local cap.
C14_RequestsWithinCaps ==
    /\ Cardinality(InProgress) <= GLOBAL_API_MAX_CONCURRENT
    /\ \A target \in {"smogon", "pokeapi"} :
           Cardinality(InProgressTo(target)) <= MAX_CONCURRENT_API_REQUESTS

\* the holders of a global permit: requester r itself as <<r, 0>>, the i-th
\* get_sets call of its batch as <<r, i>>
GlobalHolders ==
    {<<r, 0>> : r \in {q \in Requesters :
                          \/ rq_pc[q] \in {"local", "local2", "batch"}
                          \/ /\ rq_pc[q] \in {"http", "http2"}
                             /\ rq_path[q] # "validate_api_connectivity"}}
        \cup {s \in Requesters \X Batch : rq_inner[s[1]][s[2]] \in {"local", "http"}}

\* a search whose gather waits for a get_sets call that waits for a permit
WaitsForGlobal(s) ==
    /\ s[2] = 0
    /\ rq_pc[s[1]] = "batch"
    /\ \E i \in Batch : rq_inner[s[1]][i] = "global"

\* C30: in no reachable state is every holder of a global rate-limiter permit
\* waiting for another global permit while none is left.
C30_NoSemaphoreDeadlock ==
    ~(/\ _global_rate_limiter = 0
      /\ GlobalHolders # {}
      /\ \A s \in GlobalHolders : WaitsForGlobal(s))


(***************************************************************************)
(* Claims about retry_on_error.                                            *)
(***************************************************************************)
\* C15: a function wrapped with max_retries = n >= 1 is invoked at most n
\* times and at least once before the call ends; every invocation but the
\* last raised a transient exception; the sleep before re-invocation k is
\* min(base_delay * 2^(k-1), max_delay); a result is returned at once; the
\* transient exception is raised to the caller only after the n-th failure;
\* any other exception ends the call with the invocation that raised it.
C15_RetryContract ==
    LET n == rt.max_retries
        k == Len(rt.calls)
        ended == rt.pc \in {"returned", "raised"}
    IN  /\ k <= n
        /\ ended => k >= 1
        /\ \A i \in 1..(k - 1) : rt.calls[i] = "ClientError"
        /\ Len(rt.sleeps) = IF ended THEN k - 1 ELSE k
        /\ \A i \in 1..Len(rt.sleeps) :
               rt.sleeps[i] = Min(rt.base_delay * (2 ^ (i - 1)), rt.max_delay)
        /\ rt.pc = "sleep" => k < n /\ rt.calls[k] = "ClientError"
        /\ rt.pc = "returned" => rt.calls[k] = "result" /\ rt.outcome = "result"
        /\ rt.pc = "raised" =>
               /\ rt.calls[k] # "result"
               /\ rt.outcome = rt.calls[k]
               /\ rt.calls[k] = "ClientError" => k = n
C15_Witness ==
    /\ rt.pc = "raised"
    /\ rt.outcome = "ClientError"
    /\ Len(rt.calls) = MaxRetriesArg
    /\ rt.max_delay < rt.base_delay * 4
    /\ rt.base_delay < rt.max_delay
    /\ rt.sleeps[3] = rt.max_delay


(***************************************************************************)
(* Claims about closing the client.                                        *)
(***************************************************************************)
\* C16: after close() has returned, no session of the client is open and no
\* task of the client, sweep task or dedup fetch task, is still pending.
C16_NothingLeftAfterClose ==
    close_pc = "returned" =>
        /\ session # "open"
        /\ _cleanup_task \in {"none", "done"}
        /\ \A t \in 1..Len(tasks) : tasks[t].st = "done"


(***************************************************************************)
(* Claims about the in-flight registry and its per-key lock.               *)
(***************************************************************************)
Removed(k) ==
    /\ dd_pending_requests[k] # NoTask
    /\ dd_pending_requests'[k] # dd_pending_requests[k]
Registers(c) == dd_pc[c] = "register" /\ dd_pc'[c] = "await"

\* C17: every running fetch is the one registered for its key, so a key has
\* at most one in flight; an entry changes only by being removed, by the
\* call that created it, after its task is done, and while it is still that
\* call's task; an entry exists only while its creator has not returned; a
\* call that finds no entry starts a fresh fetch.
C17_OnlyCreatorRemovesEntry ==
    /\ [](\A t \in 1..Len(dd_tasks) :
              dd_tasks[t].st = "running" => dd_pending_requests[dd_tasks[t].key] = t)
    /\ [](\A k \in Keys :
              dd_pending_requests[k] # NoTask =>
                  \E c \in DedupCallers :
                      /\ dd_pc[c] = "await" /\ dd_key[c] = k
                      /\ dd_created[c] /\ dd_task[c] = dd_pending_requests[k])
    /\ [][\A k \in Keys :
              Removed(k) =>
                  /\ dd_pending_requests'[k] = NoTask
                  /\ \E c \in DedupCallers :
                         /\ dd_pc[c] = "await" /\ dd_pc'[c] = "idle"
                         /\ dd_key[c] = k
                         /\ dd_created[c]
                         /\ dd_task[c] = dd_pending_requests[k]
                         /\ dd_tasks[dd_task[c]].st = "done"]_vars
    /\ [][\A c \in DedupCallers :
              (Registers(c) /\ dd_pending_requests[dd_key[c]] = NoTask) =>
                  /\ Len(dd_tasks') = Len(dd_tasks) + 1
                  /\ dd_tasks'[Len(dd_tasks')] = KeyTask(dd_key[c], "running", "pending")
                  /\ dd_task'[c] = Len(dd_tasks')
                  /\ dd_created'[c]]_vars
C17_Witness ==
    \E t \in 2..Len(dd_tasks) :
        /\ dd_tasks[t].key = dd_tasks[1].key
        /\ dd_tasks[1].st = "done"
        /\ dd_tasks[t].st = "running"
        /\ dd_pending_requests[dd_tasks[t].key] = t
        /\ \E c \in DedupCallers : dd_pc[c] = "await" /\ dd_task[c] = 1 /\ ~dd_created[c]

\* C18: no caller holds a per-key lock while it awaits the fetch; a caller
\* about to register never has to wait; while a fetch is in progress a caller
\* of the same key joins it and a caller of a key without an entry starts
\* its own fetch.
C18_LockOnlyForBookkeeping ==
    /\ [](\A c \in DedupCallers :
              dd_pc[c] = "await" => \A k \in Keys : _request_locks[k] # c)
    /\ [](\A c \in DedupCallers : dd_pc[c] = "register" => ENABLED Register(c))
    /\ [][\A c \in DedupCallers :
              (Registers(c) /\ \E t \in 1..Len(dd_tasks) : dd_tasks[t].st = "running") =>
                  IF dd_pending_requests[dd_key[c]] # NoTask
                  THEN /\ dd_task'[c] = dd_pending_requests[dd_key[c]]
                       /\ ~dd_created'[c]
                       /\ dd_tasks' = dd_tasks
                  ELSE /\ dd_tasks' = Append(dd_tasks,
                                             KeyTask(dd_key[c], "running", "pending"))
                       /\ dd_created'[c]]_vars
C18_Witness ==
    \E c, d, e \in DedupCallers :
        /\ dd_pc[c] = "await" /\ dd_pc[d] = "await" /\ dd_pc[e] = "await"
        /\ dd_created[c] /\ ~dd_created[d] /\ dd_task[d] = dd_task[c]
        /\ dd_key[e] # dd_key[c] /\ dd_created[e]
        /\ dd_tasks[dd_task[c]].st = "running"
        /\ dd_tasks[dd_task[e]].st = "running"

(***************************************************************************)
(* Claims about the phases and the hands, checked under GameSpec.          *)
(***************************************************************************)
\* C21: once the game has started, every seat whose two dealt cards total 21
\* has its hand marked BLACKJACK and is not the current turn holder.
C21_NaturalsMarkedAndSkipped ==
    phase # "lobby" =>
        \A i \in 1..Len(players) :
            (~players[i].hands[1].is_split /\ is_blackjack(players[i].hands[1].cards)) =>
                /\ players[i].hands[1].status = "blackjack"
                /\ get_current_player(G) # SeatRef(i - 1)

\* C22: a hand whose status is not ACTIVE is, after any step, the same hand
\* of the same seat with the same cards, status and flags; so is the
\* dealer's hand.
C22_FinishedHandsNeverChange ==
    [][/\ \A i \in 1..Len(players) : \A j \in 1..Len(players[i].hands) :
              players[i].hands[j].status # "active" =>
                  /\ i <= Len(players')
                  /\ players'[i].user_id = players[i].user_id
                  /\ j <= Len(players'[i].hands)
                  /\ players'[i].hands[j] = players[i].hands[j]
       /\ dealer.hands[1].status # "active" => dealer' = dealer]_vars
\* A seat has split, finished its first hand and then acted on the second.
C22_Witness ==
    /\ phase = "playing"
    /\ last_call.op \in {"hit", "stand", "double_down"}
    /\ \E i \in 1..Len(players) :
           /\ Len(players[i].hands) = 2
           /\ players[i].hands[1].status \in {"stand", "bust"}
           /\ players[i].current_hand_index = 1
           /\ Len(players[i].hands[2].cards) = 3

PhaseRank(ph) ==
    CASE ph = "lobby" -> 0 [] ph = "dealing" -> 1 [] ph = "playing" -> 2
      [] ph = "dealer_turn" -> 3 [] ph = "results" -> 4 [] OTHER -> 5

\* C23: the phase never moves back in the order LOBBY, DEALING, PLAYING,
\* DEALER_TURN, RESULTS; start_game is rejected exactly when the phase is not
\* LOBBY or no player is seated, and then changes nothing; in RESULTS no
\* operation changes the phase, the seats, a hand or the deck.
C23_PhasesOnlyForward ==
    /\ [](Rejected(start_game(G).ret) <=> ~(phase = "lobby" /\ Len(players) >= 1))
    /\ [](Rejected(start_game(G).ret) => start_game(G).g = G)
    /\ [][/\ PhaseRank(phase') >= PhaseRank(phase)
          /\ Accepted("start_game") => phase = "lobby" /\ Len(players) >= 1
          /\ phase = "results" => UNCHANGED gameVars]_vars
\* The game went through PLAYING and the dealer's turn to RESULTS, and a call
\* made in RESULTS has been rejected.
C23_Witness ==
    /\ phase = "results"
    /\ last_call = RejectedCall
    /\ dealer.hands[1].status = "stand"
    /\ Len(dealer.hands[1].cards) = 3

(***************************************************************************)
(* Claims about the pure helpers and the shoe.                             *)
(***************************************************************************)
\* the hand with every Ace counted as 1
LowTotal(cards) == HighTotal(cards) - 10 * NumAces(cards)

\* the totals obtained by counting each Ace as 1 or 11
AceTotals(cards) == {LowTotal(cards) + 10 * k : k \in 0..NumAces(cards)}

BestTotal(cards) ==
    LET ok == {t \in AceTotals(cards) : t <= 21}
    IN  IF ok # {} THEN CHOOSE t \in ok : \A u \in ok : u <= t
        ELSE LowTotal(cards)

\* C27: calculate_hand_value returns the largest total not above 21 obtained
\* by counting each Ace as 1 or 11 when there is one, otherwise the total with
\* every Ace as 1; is_soft_hand is true exactly when the returned total counts
\* an Ace as 11.
C27_BestTotalAndSoft ==
    hv.pc = "done" =>
        /\ hv.value = BestTotal(hv.cards)
        /\ hv.soft <=> hv.value > LowTotal(hv.cards)
\* A hand of two Aces and a nine: one Ace counts 11, the other 1.
C27_Witness ==
    /\ hv.pc = "done"
    /\ NumAces(hv.cards) = 2
    /\ hv.value = 21
    /\ hv.soft

\* C28: determine_winner gives push when both have a natural, win when only
\* the player has, lose when only the dealer has; without naturals a player
\* total over 21 loses whatever the dealer holds, otherwise a dealer total
\* over 21 wins, otherwise the higher total wins and equal totals push.
C28_WinnerPrecedence ==
    dw.pc = "done" =>
        LET pv == dw.player_value
            dv == dw.dealer_value
            pb == dw.player_blackjack
            db == dw.dealer_blackjack
        IN  /\ (pb /\ db) => dw.result = "push"
            /\ (pb /\ ~db) => dw.result = "win"
            /\ (~pb /\ db) => dw.result = "lose"
            /\ (~pb /\ ~db /\ pv > 21) => dw.result = "lose"
            /\ (~pb /\ ~db /\ pv <= 21 /\ dv > 21) => dw.result = "win"
            /\ (~pb /\ ~db /\ pv <= 21 /\ dv <= 21 /\ pv > dv) => dw.result = "win"
            /\ (~pb /\ ~db /\ pv <= 21 /\ dv <= 21 /\ pv < dv) => dw.result = "lose"
            /\ (~pb /\ ~db /\ pv <= 21 /\ dv <= 21 /\ pv = dv) => dw.result = "push"
\* Player and dealer both over 21: the player loses.
C28_Witness ==
    /\ dw.pc = "done"
    /\ ~dw.player_blackjack /\ ~dw.dealer_blackjack
    /\ dw.player_value > 21 /\ dw.dealer_value > 21
    /\ dw.result = "lose"

\* how often a card occurs in a sequence of cards
Occurrences(cards, c) == Cardinality({k \in 1..Len(cards) : cards[k] = c})

\* C29: two Decks constructed with the same explicitly given seed yield the
\* same sequence of draws; a deck holds every (suit, rank) card exactly
\* BLACKJACK_NUM_DECKS_IN_SHOE times, a draw removes exactly one card, and the
\* draw after the last card fails with the empty-deck error.
C29_SeededDecksAgree ==
    /\ \A k \in 1..ShoeSize :
           (k <= Len(dk.drawn[1]) /\ k <= Len(dk.drawn[2])) => dk.drawn[1][k] = dk.drawn[2][k]
    /\ \A i \in DeckIds : dk.decks[i].pc = "ready" =>
           /\ \A c \in {_initialize_decks[k] : k \in 1..ShoeSize} :
                  Occurrences(dk.decks[i].cards \o dk.drawn[i], c) = BLACKJACK_NUM_DECKS_IN_SHOE
           /\ Len(dk.decks[i].cards) + Len(dk.drawn[i]) = ShoeSize
           /\ dk.raised[i] # "none" => (dk.raised[i] = "IndexError" /\ Len(dk.drawn[i]) = ShoeSize)

(***************************************************************************)
(* Claims about the cog, the views and the turn timer.                     *)
(***************************************************************************)
\* C24: once the game has been ended by the end command its phase is ENDED,
\* and no later join, start, hit, stand, double_down, split or surrender and
\* no forced stand of the turn timer changes the game.
C24_EndedGameIsFrozen ==
    /\ [](tb.force_ended => phase = "ended")
    /\ [][tb.force_ended => UNCHANGED gameVars]_vars

\* a game that is not over and can still be played through one of its views
Playable(game) ==
    /\ game.phase # "results"
    /\ game.lobby_view = "alive" \/ game.game_view = "alive"

\* C26: at most one game of the channel is in progress and playable at any
\* time, and the cleanup of a game removes its own registry entry or none,
\* never the entry of another game.
C26_OneGamePerChannel ==
    /\ Cardinality({g \in 1..Len(rg.games) : Playable(rg.games[g])}) <= 1
    /\ rg.last_cleanup.entry \in {0, rg.last_cleanup.by}

\* C25: at most one turn-timer task of the view is live at any time, and it
\* is the one turn_task refers to; a new one is created only when the one
\* before is done, so no two of them are past their expiry together.
C25_OneLiveTimer ==
    /\ Cardinality({t \in TimerTasks : Live(tm, t)}) <= 1
    /\ \A t \in TimerTasks : Live(tm, t) => tm.turn_task = t
    /\ Cardinality({t \in TimerTasks :
                       tm.timers[t].st \in {"editing", "editing_results"}}) <= 1
\* A timer was cancelled and replaced by the live one while another
\* start_turn_timer and an update_game_state are on their way.
C25_Witness ==
    /\ \E t \in TimerTasks : Live(tm, t) /\ tm.turn_task = t
    /\ \E u \in TimerTasks : tm.timers[u].st = "done" /\ tm.timers[u].cancel
    /\ \E p \in Procs : tm.procs[p].kind = "start" /\ tm.procs[p].pc = "lock"
    /\ \E p \in Procs : tm.procs[p].kind = "update"

(***************************************************************************)
(* Claims about the turn order and the cards, checked under GameSpec.      *)
(***************************************************************************)
\* C33: while the phase is PLAYING, current_turn_index is a seat index, that
\* seat's current_hand_index is a hand index, that hand is ACTIVE and holds
\* at least two cards, every earlier hand of the seat is finished, and a
\* stand by that seat is accepted.
C33_CurrentSeatCanAct ==
    phase = "playing" =>
        /\ current_turn_index \in 0..(Len(players) - 1)
        /\ LET p == players[current_turn_index + 1]
               k == p.current_hand_index
           IN  /\ k \in 0..(Len(p.hands) - 1)
               /\ p.hands[k + 1].status = "active"
               /\ Len(p.hands[k + 1].cards) >= 2
               /\ \A j \in 1..k : p.hands[j].status # "active"
               /\ get_current_player(G) = SeatRef(current_turn_index)
               /\ stand(G, p.user_id).ret = "True"
\* The first seat was skipped for its natural and the second seat, whose
\* turn it is, has taken a card and is still in play.
C33_Witness ==
    /\ phase = "playing"
    /\ Len(players) = 2
    /\ current_turn_index = 1
    /\ players[1].hands[1].status = "blackjack"
    /\ players[2].hands[1].status = "active"
    /\ Len(players[2].hands[1].cards) = 3
    /\ last_call.op = "hit"

\* The places of the cards held in the hands of a list of players.
HeldPlaces(ps) ==
    UNION {UNION {{<<i, j, k>> : k \in 1..Len(ps[i].hands[j].cards)} :
                      j \in 1..Len(ps[i].hands)} : i \in 1..Len(ps)}
\* How many cards of rank c are in the shoe, in the seats' hands and in the
\* dealer's hand together, and how many cards there are in all.
CardsOfRank(shoe, ps, d, c) ==
    Occurrences(shoe, c)
      + Cardinality({t \in HeldPlaces(ps) : ps[t[1]].hands[t[2]].cards[t[3]] = c})
      + Occurrences(d.hands[1].cards, c)
CardsInAll(shoe, ps, d) ==
    Len(shoe) + Cardinality(HeldPlaces(ps)) + Cardinality(HeldPlaces(<<d>>))

\* C34: cards are conserved: before the first step every card is in the shoe,
\* and every step leaves the cards of the shoe, of all seat hands and of the
\* dealer's hand together the same cards, none lost and none duplicated; the
\* dealer always has exactly one hand.
C34_CardsConserved ==
    /\ CardsInAll(deck, players, dealer) = Len(deck)
    /\ [](Len(dealer.hands) = 1)
    /\ [][<<deck, players, dealer>>' # <<deck, players, dealer>> =>
              /\ CardsInAll(deck', players', dealer')
                     = CardsInAll(deck, players, dealer)
              /\ \A c \in ModelRanks :
                     CardsOfRank(deck', players', dealer', c)
                         = CardsOfRank(deck, players, dealer, c)]_vars
\* A seat has split, played its first hand and got the deferred card on the
\* second one, with one card left in the shoe.
C34_Witness ==
    /\ Len(players) = 1
    /\ Len(players[1].hands) = 2
    /\ players[1].current_hand_index = 1
    /\ Len(players[1].hands[1].cards) >= 2
    /\ Len(players[1].hands[2].cards) = 2
    /\ Len(dealer.hands[1].cards) = 2
    /\ Len(deck) = DeckLen - 6

PlayerOps == {"hit", "stand", "double_down", "split", "surrender"}
IsSeated(u) == \E i \in 1..Len(players) : players[i].user_id = u

\* C35: current_turn_index and every seat's current_hand_index never
\* decrease; an action of a seated player is accepted only in PLAYING, from
\* the seat at current_turn_index, and changes no other seat and no hand of
\* that seat before the one at current_hand_index; the seats before the turn
\* holder have all their hands finished, as have all seats once PLAYING is
\* left by a turn; the hand index moves only one hand on, from a finished
\* hand.
C35_TurnsInOrder ==
    /\ [](phase = "playing" =>
             \A i \in 1..current_turn_index : all_hands_finished(players[i]))
    /\ [](phase = "dealer_turn" =>
             \A i \in 1..Len(players) : all_hands_finished(players[i]))
    /\ [][/\ current_turn_index' >= current_turn_index
          /\ \A i \in 1..Len(players) :
                 i <= Len(players') =>
                     LET k == players[i].current_hand_index
                         k1 == players'[i].current_hand_index
                     IN  /\ k1 \in {k, k + 1}
                         /\ k1 = k + 1 =>
                                /\ i = current_turn_index + 1
                                /\ players'[i].hands[k + 1].status # "active"
          /\ (phase = "playing" /\ phase' # "playing") =>
                 \A i \in 1..Len(players') : all_hands_finished(players'[i])
          /\ (phase = "playing" /\ current_turn_index' # current_turn_index) =>
                 all_hands_finished(players'[current_turn_index + 1])
          /\ \A op \in PlayerOps :
                 (Accepted(op) /\ IsSeated(last_call'.user_id)) =>
                     /\ phase = "playing"
                     /\ current_turn_index < Len(players)
                     /\ Len(players') = Len(players)
                     /\ LET s == current_turn_index + 1
                        IN  /\ players[s].user_id = last_call'.user_id
                            /\ \A i \in 1..Len(players) : i # s => players'[i] = players[i]
                            /\ \A j \in 1..players[s].current_hand_index :
                                   players'[s].hands[j] = players[s].hands[j]]_vars
\* The first seat has stood, the turn is on the second seat, and the first
\* seat's accepted stand being the last call.
C35_Witness ==
    /\ phase = "playing"
    /\ Len(players) = 2
    /\ current_turn_index = 1
    /\ players[1].hands[1].status = "stand"
    /\ players[2].hands[1].status = "active"
    /\ last_call.op = "stand"
    /\ last_call.user_id = players[1].user_id

(***************************************************************************)
(* The claim about the seat list, checked under LobbySpec.                 *)
(***************************************************************************)
SeatIds(ps) == [i \in 1..Len(ps) |-> ps[i].user_id]

\* C40: the seated players number at most max_players, have pairwise distinct
\* user ids and never include the dealer's user id; the seat list changes
\* only by add_player or remove_player and only while the phase is LOBBY, and
\* a rejected add_player leaves the seat list unchanged.
C40_SeatList ==
    /\ [](Len(players) <= max_players)
    /\ [](\A i, j \in 1..Len(players) :
             i # j => players[i].user_id # players[j].user_id)
    /\ [](\A i \in 1..Len(players) : players[i].user_id # dealer.user_id)
    /\ [](\A u \in LobbyCallers :
             Rejected(add_player(G, u).ret) => add_player(G, u).g.players = players)
    /\ [][SeatIds(players') # SeatIds(players) =>
              /\ phase = "lobby"
              /\ last_call'.op \in {"add_player", "remove_player"}]_vars
\* The lobby is full, a user without a seat asks for one and is turned away,
\* as are the host and a seated user.
C40_Witness ==
    /\ phase = "lobby"
    /\ Len(players) = max_players
    /\ last_call = RejectedCall
    /\ \E u \in LobbyCallers :
           /\ u # DEALER_ID /\ ~IsSeated(u)
           /\ Rejected(add_player(G, u).ret)
    /\ Rejected(add_player(G, DEALER_ID).ret)
    /\ Rejected(add_player(G, players[1].user_id).ret)

(***************************************************************************)
(* Claims about the size and the expiry of the cache.                      *)
(***************************************************************************)
\* C38: from an empty cache and with one max_size >= 1 passed to every
\* set_cache, after any sequence of set_cache, get_cache,
\* cleanup_expired_cache and clear_cache calls the table holds at most
\* max_size rows.
C38_SizeWithinMaxSize == Cardinality(Rows(cache)) <= cache_op.max_size
\* A set_cache on a full table of the largest size has evicted a row and
\* stored a key, leaving the table full again.
C38_Witness ==
    /\ cache_op.op = "set_cache"
    /\ cache_op.max_size = MaxFixedSize
    /\ cache_op.evicted # {}
    /\ Cardinality(Rows(cache)) = MaxFixedSize

\* The rows get_cache called with max_age at this instant would treat as
\* expired: it deletes them and returns None.
ExpiredForGet(max_age) ==
    {k \in Rows(cache) :
        /\ get_cache(cache, k, max_age, wall).tbl[k] = NoRow
        /\ get_cache(cache, k, max_age, wall).data = "None"}

\* C39: cleanup_expired_cache(max_age) removes exactly the rows get_cache
\* with the same max_age at the same instant would treat as expired, a row
\* whose age equals max_age included, leaves every other row as it was and
\* returns the number of rows it removed.
C39_CleanupAgreesWithGet ==
    \A max_age \in MaxAges :
        LET after == cleanup_expired_cache(cache, max_age, wall)
        IN  /\ Rows(cache) \ Rows(after) = ExpiredForGet(max_age)
            /\ \A k \in CacheKeys \ ExpiredForGet(max_age) : after[k] = cache[k]
            /\ deleted_count(cache, max_age, wall) = Cardinality(ExpiredForGet(max_age))

(***************************************************************************)
(* Claims about the breaker under concurrent callers, checked under        *)
(* BreakerSpec.                                                            *)
(***************************************************************************)
\* The callers whose operation is in flight after being admitted in HALF_OPEN
HalfOpenInFlight ==
    {c \in BreakerCallers : cb_pc[c] = "running" /\ admitted_in[c] = "half_open"}

\* C36: while the breaker is HALF_OPEN the operations admitted in HALF_OPEN
\* and in flight at once are fewer than the callers, however many callers
\* there are: a caller beyond the limit does not invoke the operation.
C36_HalfOpenLetsFewThrough ==
    _state = "half_open" => Cardinality(HalfOpenInFlight) < NumBreakerCallers

\* C37: in every state reached by concurrent calls and resets, CLOSED implies
\* failure_count < failure_threshold, success_count is non-zero only in
\* HALF_OPEN and always below success_threshold, and OPEN implies that
\* last_failure_time is set.
C37_BreakerStateConsistent ==
    /\ _state = "closed" => _failure_count < failure_threshold
    /\ _success_count # 0 => _state = "half_open"
    /\ _success_count < success_threshold
    /\ _state = "open" => _last_failure_time # NoTime
\* Every caller has a call in flight in HALF_OPEN, after the breaker opened
\* and a first success was recorded in HALF_OPEN.
C37_Witness ==
    /\ _state = "half_open"
    /\ _success_count = 1
    /\ \A c \in BreakerCallers : cb_pc[c] = "running"
    /\ _failure_count = 0
    /\ calls_made >= failure_threshold + 3

(***************************************************************************)
(* The claim about the turn the timer acts on, checked under TimerSpec.    *)
(***************************************************************************)
\* The _turn_timeout task t has run to its end of time and made the current
\* player stand in this step.
TimerStood(t) ==
    /\ tm.timers[t].st = "sleeping"
    /\ ~tm.timers[t].cancel
    /\ ~tm.results
    /\ tm'.timers[t].st # "sleeping"

\* C31: the expiry of a turn timer makes the current player stand only while
\* the turn the timer was started for is still on: however a player's action
\* and the expiry interleave, no timer ends a turn that began after the timer
\* was started.
C31_TimerStandsOwnTurn ==
    [][\A t \in TimerTasks : TimerStood(t) => ~tm.timers[t].stale]_vars

(***************************************************************************)
(* The claim about the end of a started game, checked under                *)
(* TableTimerSpec.                                                         *)
(***************************************************************************)
\* C32: a started game eventually reaches RESULTS with its turns ended by
\* accepted actions or by the turn timer's forced stand and no other input,
\* the dealer's turn included.  Left aside are the games whose view has
\* timed out or that were ended by command, and those that have used up the
\* modelled window of the shoe.
C32_StartedGameEnds ==
    (phase \in {"playing", "dealer_turn"})
        ~> \/ phase = "results"
           \/ tb.game_view # "alive"
           \/ tb.force_ended
           \/ deck = <<>>

=============================================================================
